---- MODULE Spec2Model ----
(***************************************************************************)
(* Model of the news-sentiment-analyzer pipeline:                          *)
(*   - AnalyticsService.checkAlerts / checkKeywordAlerts  (analytics.ts)   *)
(*   - OpenRouterService enrichment client                (webScraper.ts)  *)
(*   - NewsScraperService ingestion cycle                 (scraper.ts)     *)
(* Numbers with a fractional part (sentiment scores, confidences) are      *)
(* kept in tenths: 1.0 is Scale.  Percent changes are kept as exact        *)
(* fractions <<numerator, denominator>>.                                   *)
(***************************************************************************)
EXTENDS Integers, Sequences, FiniteSets, TLC

VARIABLES
  keywordTracks,   \* KeywordTrack collection: sequence of track documents
  found,           \* Article.find results per keyword: recent / previous bags
  alerts,          \* Alert collection, in order of creation
  alertRun,        \* the running checkAlerts call
  enrich,          \* one call of an enrichment operation and what it returned
  clock,           \* Date.now(), in ms
  lastRequestTime, \* OpenRouterService.lastRequestTime
  callers,         \* callers of the enrichment client inside rateLimit / a request
  sentAt,          \* times at which a request was sent to the provider
  feeds,           \* what each upstream source serves, per adapter
  articles,        \* Article collection
  run,             \* the ingestion runs: scheduled cycle and manual trigger
  env,             \* provider behaviour and storage faults still to happen
  rssSource,       \* the RSSSource document of the configured feed
  dash,            \* one call of generateDashboardMetrics and what it returned
  analytics,       \* Analytics collection, in order of creation
  cacheRun,        \* the callers of generateAndCacheAnalytics
  cacheEnv,        \* the hour of the day, the articles and the storage faults left
  web,             \* the WebScraper call of POST method web and the pages served
  sched,           \* the SchedulerService singleton, its cron tasks and their firings
  systemLogs,      \* the in-memory log of systemLogger.ts and the last query on it
  cached,          \* global.mongoose of connectDB, its callers and the microtask queue
  call             \* one call of a pure helper: its arguments and what it returned

alertVars == <<keywordTracks, found, alerts, alertRun>>
rateVars == <<clock, lastRequestTime, callers, sentAt>>
ingestVars == <<feeds, articles, run, env, rssSource>>
restVars == <<sched, systemLogs, cached, call>>
auxVars == <<dash, analytics, cacheRun, cacheEnv, web, sched, systemLogs, cached, call>>

vars == <<keywordTracks, found, alerts, alertRun, enrich,
          clock, lastRequestTime, callers, sentAt, feeds, articles, run, env,
          rssSource, dash, analytics, cacheRun, cacheEnv, web,
          sched, systemLogs, cached, call>>

(***************************************************************************)
(* Bounds                                                                  *)
(***************************************************************************)
MaxPerScore == 2      \* articles of one score value per 24 h period
NTracks == 2          \* keyword tracks in the multi-track runs
NCallers == 2         \* concurrent callers of the enrichment client
MaxRequests == 3      \* requests sent to the provider in one behaviour
TickMs == 50          \* granularity of the clock, in ms
MaxTicks == 8         \* clock ticks in one behaviour
MaxFeed == 11         \* entries served by the RSS feed
MaxRaceFeed == 2      \* RSS entries when two runs race
MaxDocs == 3          \* stored articles when metrics are computed
MaxCacheTicks == 2    \* hours that pass while snapshots are cached
CycleCap == 3         \* cycles of a run that are counted
StreakCap == 3        \* failures in a row of the RSS source that are counted
MaxFaults == 2        \* storage operations that fail in one behaviour
MaxWebLinks == 2      \* article links on the listing page of an HTML source
MaxWebFailures == 1   \* page fetches of the HTML sources that fail
MaxPostArticles == 2  \* articles scraped for one request of the web-scraper route
MaxTasks == 6         \* cron tasks held by the scheduler
MaxFirings == 6       \* firings of the analytics job
MaxParagraphs == 3    \* paragraphs of a page with selector matches
MaxLongPage == 12     \* paragraphs of a page without selector matches
MaxNowHours == 25     \* hours of the clock at which a request is built
NSources == 3         \* active RSS sources of one scrapeRSSFeeds call
MaxSourceItems == 1   \* items of the feed of one of these sources
MaxDateHours == 3     \* hours of the clock at which an adapter builds an article
MaxAppends == 3       \* entries appended to the system log in one behaviour
NConnCallers == 2     \* requests that call connectDB
MaxConnCalls == 3     \* calls of connectDB by one request
MaxAttempts == 2      \* connection attempts in one behaviour

Scale == 10

(***************************************************************************)
(* Small helpers                                                           *)
(***************************************************************************)
Abs(x) == IF x < 0 THEN -x ELSE x

RECURSIVE SumOver(_, _)
SumOver(f, S) ==
  IF S = {} THEN 0
  ELSE LET x == CHOOSE y \in S : TRUE IN f[x] + SumOver(f, S \ {x})

(***************************************************************************)
(* Alert evaluator: analytics.ts                                           *)
(***************************************************************************)
Scores == {-10, -2, 1}                   \* sentiment scores, in tenths
VolumeThresholds == {0, 50, 150}
SentimentThresholds == {20, 40}
Keywords == 1..NTracks

ArticleBags == [Scores -> 0..MaxPerScore]
EmptyBag == [s \in Scores |-> 0]

\* recentArticles.length
BagCount(bag) == SumOver(bag, Scores)
\* articles.reduce((sum, a) => sum + a.sentiment.score, 0), in tenths
BagScoreSum(bag) == SumOver([s \in Scores |-> s * bag[s]], Scores)

\* previousCount > 0 ? ((recentCount - previousCount) / previousCount) * 100 : 0
VolumeChange(recentCount, previousCount) ==
  IF previousCount > 0
    THEN <<(recentCount - previousCount) * 100, previousCount>>
    ELSE <<0, 1>>

\* variant without Math.abs
SentimentChangeSigned(recent, previous) ==
  <<(BagScoreSum(recent) * BagCount(previous)
        - BagScoreSum(previous) * BagCount(recent)) * 100,
    Scale * BagCount(recent) * BagCount(previous)>>

\* Math.abs(recentSentiment - previousSentiment) * 100, both periods non-empty
SentimentChange(recent, previous) ==
  <<Abs(BagScoreSum(recent) * BagCount(previous)
        - BagScoreSum(previous) * BagCount(recent)) * 100,
    Scale * BagCount(recent) * BagCount(previous)>>

\* comparisons of a fraction with a number (denominators are positive)
FracGeq(q, t) == q[1] >= t * q[2]
FracGt(q, t) == q[1] > t * q[2]

\* variant with a strict comparison
VolumeTriggeredStrict(track, recent, previous) ==
  FracGt(VolumeChange(BagCount(recent), BagCount(previous)),
         track.alertThreshold.volumeSpike)

\* volumeChange >= keywordTrack.alertThreshold.volumeSpike
VolumeTriggered(track, recent, previous) ==
  FracGeq(VolumeChange(BagCount(recent), BagCount(previous)),
          track.alertThreshold.volumeSpike)

VolumeSeverity(change) == IF FracGt(change, 100) THEN "high" ELSE "medium"

SentimentEvaluated(recent, previous) ==
  BagCount(recent) > 0 /\ BagCount(previous) > 0

SentimentTriggered(track, recent, previous) ==
  /\ SentimentEvaluated(recent, previous)
  /\ FracGeq(SentimentChange(recent, previous),
             track.alertThreshold.sentimentChange)

SentimentSeverity(change) == IF FracGt(change, 50) THEN "high" ELSE "medium"

\* createAlert: the Alert document that is saved
NewAlert(type, keyword, severity, change) ==
  [type |-> type, keyword |-> keyword, severity |-> severity,
   isRead |-> FALSE, isSent |-> FALSE, change |-> change]

VolumeAlert(track, recent, previous) ==
  LET c == VolumeChange(BagCount(recent), BagCount(previous))
  IN NewAlert("volume_spike", track.keyword, VolumeSeverity(c), c)

SentimentAlert(track, recent, previous) ==
  LET c == SentimentChange(recent, previous)
  IN NewAlert("sentiment_change", track.keyword, SentimentSeverity(c), c)

\* places where a storage operation of checkKeywordAlerts can fail
FaultPoints == {"none", "findRecent", "findPrevious", "saveVolume", "saveSentiment"}

\* the alerts checkKeywordAlerts has saved when it returns or throws at `fault`
EmittedAlerts(track, recent, previous, fault) ==
  LET vol == IF VolumeTriggered(track, recent, previous)
                  /\ fault \notin {"findRecent", "findPrevious", "saveVolume"}
               THEN <<VolumeAlert(track, recent, previous)>> ELSE <<>>
      sen == IF SentimentTriggered(track, recent, previous)
                  /\ fault = "none"
               THEN <<SentimentAlert(track, recent, previous)>> ELSE <<>>
  IN vol \o sen

\* a fault can only happen at an operation that is executed
FaultPossible(track, recent, previous, fault) ==
  CASE fault = "saveVolume" -> VolumeTriggered(track, recent, previous)
    [] fault = "saveSentiment" -> SentimentTriggered(track, recent, previous)
    [] OTHER -> TRUE

ActiveTracks(coll) == SelectSeq(coll, LAMBDA t : t.isActive)

AlertIdle ==
  [pc |-> "idle", trackedKeywords |-> <<>>, idx |-> 0,
   failed |-> {}, evaluated |-> {}, raised |-> FALSE, faulty |-> FALSE]

\* checkAlerts, up to the loop: KeywordTrack.find({ isActive: true })
StartCheckAlerts ==
  /\ alertRun.pc = "idle"
  /\ \E findFails \in {FALSE, alertRun.faulty} :
       alertRun' = IF findFails
         THEN [alertRun EXCEPT !.pc = "raised", !.raised = TRUE]
         ELSE [alertRun EXCEPT !.pc = "loop",
                               !.trackedKeywords = ActiveTracks(keywordTracks),
                               !.idx = 1]
  /\ UNCHANGED <<keywordTracks, found, alerts, enrich, rateVars, ingestVars, auxVars>>

\* variant without the try/catch around checkKeywordAlerts
CheckKeywordAlertsNoCatch ==
  /\ alertRun.pc = "loop"
  /\ alertRun.idx <= Len(alertRun.trackedKeywords)
  /\ LET track == alertRun.trackedKeywords[alertRun.idx]
         recent == found[track.keyword].recent
         previous == found[track.keyword].previous
     IN \E fault \in (IF alertRun.faulty THEN FaultPoints ELSE {"none"}) :
          /\ FaultPossible(track, recent, previous, fault)
          /\ alerts' = alerts \o EmittedAlerts(track, recent, previous, fault)
          /\ alertRun' = IF fault = "none"
                THEN [alertRun EXCEPT !.idx = @ + 1,
                                      !.evaluated = @ \cup {alertRun.idx}]
                ELSE [alertRun EXCEPT !.pc = "raised", !.raised = TRUE,
                                      !.failed = @ \cup {alertRun.idx}]
  /\ UNCHANGED <<keywordTracks, found, enrich, rateVars, ingestVars, auxVars>>

\* one iteration of the loop of checkAlerts: try { checkKeywordAlerts } catch
CheckKeywordAlerts ==
  /\ alertRun.pc = "loop"
  /\ alertRun.idx <= Len(alertRun.trackedKeywords)
  /\ LET track == alertRun.trackedKeywords[alertRun.idx]
         recent == found[track.keyword].recent
         previous == found[track.keyword].previous
     IN \E fault \in (IF alertRun.faulty THEN FaultPoints ELSE {"none"}) :
          /\ FaultPossible(track, recent, previous, fault)
          /\ alerts' = alerts \o EmittedAlerts(track, recent, previous, fault)
          /\ alertRun' = [alertRun EXCEPT
                !.idx = @ + 1,
                !.failed = IF fault = "none" THEN @ ELSE @ \cup {alertRun.idx},
                !.evaluated = IF fault = "none" THEN @ \cup {alertRun.idx} ELSE @]
  /\ UNCHANGED <<keywordTracks, found, enrich, rateVars, ingestVars, auxVars>>

\* the loop of checkAlerts is exhausted: the call returns
FinishCheckAlerts ==
  /\ alertRun.pc = "loop"
  /\ alertRun.idx > Len(alertRun.trackedKeywords)
  /\ alertRun' = [alertRun EXCEPT !.pc = "done"]
  /\ UNCHANGED <<keywordTracks, found, alerts, enrich, rateVars, ingestVars, auxVars>>

\* the parts of the system a specification does not exercise stay as constructed
AlertOff ==
  /\ keywordTracks = <<>>
  /\ found = [k \in Keywords |-> [recent |-> EmptyBag, previous |-> EmptyBag]]
  /\ alerts = <<>>
  /\ alertRun = AlertIdle

EnrichOff == enrich = [pc |-> "off"]

DashOff == dash = [pc |-> "off"]

CacheCallers == {"first", "second"}

CacheRunOff ==
  [pc |-> "off", idx |-> 0, calls |-> 0, dateToCache |-> 0, metrics |-> <<>>,
   dates |-> <<>>, wrote |-> <<>>, failed |-> <<>>]

CacheOff ==
  /\ analytics = <<>>
  /\ cacheRun = [c \in CacheCallers |-> CacheRunOff]
  /\ cacheEnv = [now |-> 0, docs |-> {}, faultsLeft |-> 0, maxCalls |-> 0,
                 ticksLeft |-> 0]

WebOff == web = [pc |-> "off"]

SchedOff == sched = [pc |-> "off"]
LogsOff == systemLogs = [pc |-> "off"]
ConnOff == cached = [pc |-> "off"]
CallOff == call = [pc |-> "off"]
RestOff == SchedOff /\ LogsOff /\ ConnOff /\ CallOff

AuxOff == DashOff /\ CacheOff /\ WebOff /\ RestOff


StartClock == 1000

RateOff ==
  /\ clock = StartClock
  /\ lastRequestTime = 0
  /\ callers = [c \in 1..NCallers |-> [pc |-> "idle", now |-> 0, wake |-> 0, op |-> "none"]]
  /\ sentAt = <<>>

Runs == {"cron", "manual"}
AdapterOrder == <<"rss", "newsapi", "guardian">>
Adapters == {"rss", "newsapi", "guardian"}

RunOff ==
  [pc |-> "off", adapter |-> 0, item |-> 0, all |-> <<>>, pos |-> 0,
   cur |-> <<>>, cycles |-> 0, raised |-> FALSE, callsSinceCheck |-> 0,
   skipped |-> {}, discarded |-> 0, firstBatch |-> 0, errors |-> 0,
   snapshot |-> {}, batch |-> <<>>, log |-> <<>>,
   slots |-> [a \in Adapters |-> 0], http |-> [a \in Adapters |-> 0],
   invoked |-> {}, failedAdapters |-> {}, returned |-> <<>>, source |-> <<>>]

\* an RSSSource document as created, with the history kept for it
RssSourceDoc(isActive) ==
  [isActive |-> isActive, errorCount |-> 0, lastError |-> "", lastFetched |-> 0,
   lastSuccessful |-> 0, maxArticles |-> 50, streak |-> 0, latest |-> "none"]

AllKeys == [newsapi |-> "k", guardian |-> "k"]

\* the environment of a run: cycles allowed, replies of the enrichment
\* provider, storage faults left, upstream behaviour, API keys
Env(maxCycles, replies, faultsLeft, upstream, keys) ==
  [maxCycles |-> maxCycles, replies |-> replies, faultsLeft |-> faultsLeft,
   upstream |-> upstream, keys |-> keys]

IngestOff ==
  /\ feeds = [a \in Adapters |-> <<>>]
  /\ articles = {}
  /\ run = [r \in Runs |-> RunOff]
  /\ env = Env(0, "ok", 0, "up", AllKeys)
  /\ rssSource = RssSourceDoc(TRUE)

TrackDocs(kws) ==
  [keyword : kws, isActive : BOOLEAN,
   alertThreshold : [volumeSpike : VolumeThresholds,
                     sentimentChange : SentimentThresholds]]

\* one keyword track, articles of every mix of scores in both periods
InitAlerts ==
  /\ \E t \in TrackDocs({1}) : keywordTracks = <<t>>
  /\ \E r \in ArticleBags, p \in ArticleBags :
       found = [k \in Keywords |-> IF k = 1 THEN [recent |-> r, previous |-> p]
                                   ELSE [recent |-> EmptyBag, previous |-> EmptyBag]]
  /\ alerts = <<>>
  /\ \E f \in BOOLEAN : alertRun = [AlertIdle EXCEPT !.faulty = f]
  /\ EnrichOff /\ RateOff /\ IngestOff /\ AuxOff

NextAlerts ==
  \/ StartCheckAlerts
  \/ CheckKeywordAlerts
  \/ FinishCheckAlerts

SpecAlerts == InitAlerts /\ [][NextAlerts]_vars

\* NTracks keyword tracks with distinct keywords, one or no article per period
RunThresholds == [volumeSpike : {0, 150}, sentimentChange : {20}]
RunRecentBags == {EmptyBag, [EmptyBag EXCEPT ![1] = 1]}
RunPreviousBags == {EmptyBag, [EmptyBag EXCEPT ![-2] = 1]}

InitAlertRun ==
  /\ keywordTracks \in
       {t \in [1..NTracks -> [keyword : Keywords, isActive : BOOLEAN,
                              alertThreshold : RunThresholds]] :
          \A i \in 1..NTracks : t[i].keyword = i}
  /\ found \in [Keywords -> [recent : RunRecentBags, previous : RunPreviousBags]]
  /\ alerts = <<>>
  /\ alertRun = [AlertIdle EXCEPT !.faulty = TRUE]
  /\ EnrichOff /\ RateOff /\ IngestOff /\ AuxOff

SpecAlertRun == InitAlertRun /\ [][NextAlerts]_vars

(***************************************************************************)
(* JavaScript values as the enrichment client sees them after JSON.parse   *)
(***************************************************************************)
JsVal(t, n, str) == [t |-> t, n |-> n, s |-> str]
Undefined == JsVal("undefined", 0, "")
Null == JsVal("null", 0, "")
NaN == JsVal("nan", 0, "")
Num(n) == JsVal("number", n, "")       \* n in tenths where the field is fractional
Str(str) == JsVal("string", 0, str)
Obj == JsVal("object", 0, "")          \* a nested object, e.g. {"value": 1}
Arr(n) == JsVal("array", n, "")        \* an array of n strings

\* ToBoolean
Truthy(v) ==
  CASE v.t \in {"undefined", "null", "nan"} -> FALSE
    [] v.t = "number" -> v.n # 0
    [] v.t = "string" -> v.s # ""
    [] OTHER -> TRUE

\* a || b
JsOr(a, b) == IF Truthy(a) THEN a ELSE b

\* the strings of the model and the number each converts to (NaN if none)
StringToNumber(str) ==
  CASE str = "" -> Num(0)
    [] str = "0.5" -> Num(5)
    [] str = "0.9" -> Num(9)
    [] str = "75" -> Num(75)
    [] OTHER -> NaN

\* ToNumber, as applied by Math.min / Math.max to their arguments
ToNumber(v) ==
  CASE v.t = "number" -> v
    [] v.t = "null" -> Num(0)
    [] v.t = "string" -> StringToNumber(v.s)
    [] v.t = "array" -> IF v.n = 0 THEN Num(0) ELSE NaN
    [] OTHER -> NaN

MathMin(a, b) ==
  LET x == ToNumber(a)
      y == ToNumber(b)
  IN IF x.t = "nan" \/ y.t = "nan" THEN NaN
     ELSE IF x.n <= y.n THEN x ELSE y

MathMax(a, b) ==
  LET x == ToNumber(a)
      y == ToNumber(b)
  IN IF x.t = "nan" \/ y.t = "nan" THEN NaN
     ELSE IF x.n >= y.n THEN x ELSE y

\* String.prototype.toLowerCase on the label strings of the model
ToLowerCase(str) ==
  CASE str = "NEGATIVE" -> "negative"
    [] str = "Positive" -> "positive"
    [] OTHER -> str

\* String.prototype.includes on lower-cased label strings
Includes(str, sub) ==
  CASE sub = "positive" -> str \in {"positive", "very positive", "positive/negative"}
    [] sub = "negative" -> str \in {"negative", "positive/negative"}
    [] OTHER -> FALSE

(***************************************************************************)
(* Enrichment client: OpenRouterService in webScraper.ts                   *)
(***************************************************************************)
EnrichmentOps == {"sentiment", "entities", "keywords", "readability"}

Returned(v) == [throws |-> FALSE, value |-> v]
Thrown == [throws |-> TRUE, value |-> Undefined]

FallbackSentiment == [score |-> Num(0), confidence |-> Num(1), label |-> "neutral"]
FallbackEntities ==
  [person |-> 0, organization |-> 0, location |-> 0, technology |-> 0, other |-> 0]
FallbackKeywords == [keywords |-> 0, topics |-> 0]
FallbackReadability == 50
MaxKeywordsKept == 10
MaxTopicsKept == 5

\* what JSON.parse yields for a reply to each operation
ParsedNull == [shape |-> "null"]
ParsedNumber(n) == [shape |-> "number", n |-> n]
ParsedString(str) == [shape |-> "string", s |-> str]
ParsedObject(fields) == [shape |-> "object", fields |-> fields]

\* result.<name> on a parsed reply: a TypeError on null, undefined on primitives
Field(parsed, name) ==
  CASE parsed.shape = "null" -> Thrown
    [] parsed.shape = "object" ->
         Returned(IF name \in DOMAIN parsed.fields THEN parsed.fields[name]
                  ELSE Undefined)
    [] OTHER -> Returned(Undefined)

\* the provider outcomes: the request fails, the reply text does not parse,
\* or it parses to a JSON value
TransportError == [kind |-> "transport_error"]
Unparseable == [kind |-> "unparseable"]
Json(parsed) == [kind |-> "json", parsed |-> parsed]

\* callOpenRouter: returns the parsed reply, the per-type fallback on a parse
\* error, and throws on a transport error
CallOpenRouter(outcome, type) ==
  CASE outcome.kind = "transport_error" -> Thrown
    [] outcome.kind = "unparseable" ->
         Returned(CASE type = "sentiment" ->
                         ParsedObject([score |-> Num(0), confidence |-> Num(1),
                                       label |-> Str("neutral")])
                    [] type = "entities" ->
                         ParsedObject([person |-> Arr(0), organization |-> Arr(0),
                                       location |-> Arr(0), technology |-> Arr(0),
                                       other |-> Arr(0)])
                    [] type = "keywords" ->
                         ParsedObject([keywords |-> Arr(0), topics |-> Arr(0)])
                    [] OTHER -> ParsedNumber(50))
    [] OTHER -> Returned(outcome.parsed)

\* normalizeSentimentLabel: label?.toLowerCase() throws on a non-string
NormalizeSentimentLabel(label) ==
  CASE label.t \in {"undefined", "null"} -> Returned("neutral")
    [] label.t = "string" ->
         LET l == ToLowerCase(label.s)
         IN Returned(IF Includes(l, "positive") THEN "positive"
                     ELSE IF Includes(l, "negative") THEN "negative"
                     ELSE "neutral")
    [] OTHER -> Thrown

\* analyzeSentiment (the emotions field is not modelled)
AnalyzeSentiment(outcome) ==
  LET res == CallOpenRouter(outcome, "sentiment")
  IN IF res.throws THEN FallbackSentiment
     ELSE LET score == Field(res.value, "score")
              confidence == Field(res.value, "confidence")
              label == Field(res.value, "label")
          IN IF score.throws THEN FallbackSentiment
             ELSE LET norm == NormalizeSentimentLabel(label.value)
                  IN IF norm.throws THEN FallbackSentiment
                     ELSE [score |-> MathMax(Num(-Scale),
                                      MathMin(Num(Scale), JsOr(score.value, Num(0)))),
                           confidence |-> MathMax(Num(0),
                                      MathMin(Num(Scale),
                                              JsOr(confidence.value, Num(5)))),
                           label |-> norm.value]

\* Array.isArray(x) ? x : [] ; lists are kept by their length
ArrayOrEmpty(v) == IF v.t = "array" THEN v.n ELSE 0
Min(a, b) == IF a <= b THEN a ELSE b

\* extractEntities
ExtractEntities(outcome) ==
  LET res == CallOpenRouter(outcome, "entities")
  IN IF res.throws \/ Field(res.value, "person").throws THEN FallbackEntities
     ELSE [c \in DOMAIN FallbackEntities |->
             ArrayOrEmpty(Field(res.value, c).value)]

\* extractKeywords
ExtractKeywords(outcome) ==
  LET res == CallOpenRouter(outcome, "keywords")
  IN IF res.throws \/ Field(res.value, "keywords").throws THEN FallbackKeywords
     ELSE [keywords |-> Min(ArrayOrEmpty(Field(res.value, "keywords").value),
                            MaxKeywordsKept),
           topics |-> Min(ArrayOrEmpty(Field(res.value, "topics").value),
                          MaxTopicsKept)]

\* calculateReadability: the score taken from a number, string or object reply
ReadabilityScore(parsed) ==
  CASE parsed.shape = "number" -> Num(parsed.n)
    [] parsed.shape = "string" -> StringToNumber(parsed.s)   \* parseFloat
    [] parsed.shape = "object" ->
         IF Field(parsed, "score").value.t = "number"
           THEN Field(parsed, "score").value ELSE Num(50)
    [] OTHER -> Num(50)

\* variant that lets a transport error escape to the caller
CalculateReadabilityRethrow(outcome) ==
  LET res == CallOpenRouter(outcome, "readability")
  IN IF res.throws THEN Thrown
     ELSE LET score == ReadabilityScore(res.value)
          IN Returned(IF score.t = "nan" THEN 50
                      ELSE MathMax(Num(0), MathMin(Num(100), score)).n)

\* calculateReadability
CalculateReadability(outcome) ==
  LET res == CallOpenRouter(outcome, "readability")
  IN IF res.throws THEN Returned(FallbackReadability)
     ELSE LET score == ReadabilityScore(res.value)
          IN Returned(IF score.t = "nan" THEN 50
                      ELSE MathMax(Num(0), MathMin(Num(100), score)).n)

\* replies to the sentiment prompt: every mix of field values JSON can carry
ScoreValues ==
  {Undefined, Null, Num(-25), Num(-10), Num(-3), Num(0), Num(7), Num(10), Num(30),
   Str("0.5"), Str("high"), Obj}
ConfidenceValues ==
  {Undefined, Num(-5), Num(0), Num(9), Num(20), Str("0.9"), Str("high")}
LabelValues ==
  {Undefined, Null, Str("positive"), Str("NEGATIVE"), Str("neutral"),
   Str("very positive"), Str("mixed"), Num(1)}

SentimentOutcomes ==
  {TransportError, Unparseable, Json(ParsedNull), Json(ParsedNumber(5)),
   Json(ParsedString("positive"))}
  \cup {Json(ParsedObject(f)) :
          f \in [score : ScoreValues, confidence : ConfidenceValues,
                 label : LabelValues]}

ListValues == {Undefined, Null, Arr(0), Arr(2), Arr(12), Str("x")}

EntityOutcomes ==
  {TransportError, Unparseable, Json(ParsedNull), Json(ParsedNumber(5))}
  \cup {Json(ParsedObject(f)) :
          f \in [person : ListValues, organization : {Arr(1)}, location : {Arr(0)},
                 technology : {Undefined}, other : {Arr(2), Str("x")}]}

KeywordOutcomes ==
  {TransportError, Unparseable, Json(ParsedNull), Json(ParsedNumber(5))}
  \cup {Json(ParsedObject(f)) : f \in [keywords : ListValues, topics : ListValues]}

ReadabilityOutcomes ==
  {TransportError, Unparseable, Json(ParsedNull), Json(ParsedString("75")),
   Json(ParsedString("easy"))}
  \cup {Json(ParsedNumber(n)) : n \in {-5, 0, 75, 100, 150}}
  \cup {Json(ParsedObject([score |-> v])) : v \in {Num(60), Str("75"), Undefined}}

OutcomesOf(op) ==
  CASE op = "sentiment" -> SentimentOutcomes
    [] op = "entities" -> EntityOutcomes
    [] op = "keywords" -> KeywordOutcomes
    [] OTHER -> ReadabilityOutcomes

\* one call of one enrichment operation, from the caller's side
AnalyzeSentimentCall ==
  /\ enrich.pc = "called" /\ enrich.op = "sentiment"
  /\ enrich' = [enrich EXCEPT !.pc = "returned",
                               !.result = AnalyzeSentiment(enrich.outcome)]
  /\ UNCHANGED <<alertVars, rateVars, ingestVars, auxVars>>

ExtractEntitiesCall ==
  /\ enrich.pc = "called" /\ enrich.op = "entities"
  /\ enrich' = [enrich EXCEPT !.pc = "returned",
                               !.result = ExtractEntities(enrich.outcome)]
  /\ UNCHANGED <<alertVars, rateVars, ingestVars, auxVars>>

ExtractKeywordsCall ==
  /\ enrich.pc = "called" /\ enrich.op = "keywords"
  /\ enrich' = [enrich EXCEPT !.pc = "returned",
                               !.result = ExtractKeywords(enrich.outcome)]
  /\ UNCHANGED <<alertVars, rateVars, ingestVars, auxVars>>

CalculateReadabilityCall ==
  /\ enrich.pc = "called" /\ enrich.op = "readability"
  /\ LET r == CalculateReadability(enrich.outcome)
     IN enrich' = [enrich EXCEPT !.pc = IF r.throws THEN "raised" ELSE "returned",
                                 !.result = r.value]
  /\ UNCHANGED <<alertVars, rateVars, ingestVars, auxVars>>

InitEnrich ==
  /\ \E op \in EnrichmentOps : \E o \in OutcomesOf(op) :
       enrich = [pc |-> "called", op |-> op, outcome |-> o, result |-> "none"]
  /\ AlertOff /\ RateOff /\ IngestOff /\ AuxOff

NextEnrich ==
  \/ AnalyzeSentimentCall
  \/ ExtractEntitiesCall
  \/ ExtractKeywordsCall
  \/ CalculateReadabilityCall

SpecEnrich == InitEnrich /\ [][NextEnrich]_vars

(***************************************************************************)
(* The rate limiter of the enrichment client                               *)
(***************************************************************************)
MinSpacing == 100
RateOps == EnrichmentOps \cup {"translate"}
Callers == 1..NCallers

\* rateLimit up to its await, and past it when there is nothing to wait for;
\* the request is sent right after rateLimit resolves
RateLimitEnter(c, op) ==
  /\ callers[c].pc = "idle"
  /\ Len(sentAt) + Cardinality({d \in Callers : callers[d].pc = "waiting"})
       < MaxRequests
  /\ LET now == clock
         timeSinceLastRequest == now - lastRequestTime
     IN IF timeSinceLastRequest < MinSpacing
          THEN /\ callers' = [callers EXCEPT ![c] =
                     [pc |-> "waiting", now |-> now,
                      wake |-> clock + (MinSpacing - timeSinceLastRequest),
                      op |-> op]]
               /\ UNCHANGED <<lastRequestTime, sentAt>>
          ELSE /\ lastRequestTime' = now
               /\ sentAt' = Append(sentAt, clock)
               /\ callers' = [callers EXCEPT ![c] =
                     [pc |-> "inflight", now |-> now, wake |-> 0, op |-> op]]
  /\ UNCHANGED <<clock, alertVars, enrich, ingestVars, auxVars>>

\* the setTimeout of rateLimit fires: lastRequestTime = now (the value read
\* before the wait), then the request is sent
RateLimitWake(c) ==
  /\ callers[c].pc = "waiting"
  /\ clock >= callers[c].wake
  /\ lastRequestTime' = callers[c].now
  /\ sentAt' = Append(sentAt, clock)
  /\ callers' = [callers EXCEPT ![c].pc = "inflight"]
  /\ UNCHANGED <<clock, alertVars, enrich, ingestVars, auxVars>>

\* the provider answers (or the request fails): the operation returns
RequestCompletes(c) ==
  /\ callers[c].pc = "inflight"
  /\ callers' = [callers EXCEPT ![c] =
        [pc |-> "idle", now |-> 0, wake |-> 0, op |-> "none"]]
  /\ UNCHANGED <<clock, lastRequestTime, sentAt, alertVars, enrich, ingestVars, auxVars>>

\* time passes; a due timer fires before the clock moves on
Tick ==
  /\ clock < StartClock + MaxTicks * TickMs
  /\ \A c \in Callers : callers[c].pc = "waiting" => callers[c].wake > clock
  /\ clock' = clock + TickMs
  /\ UNCHANGED <<lastRequestTime, callers, sentAt, alertVars, enrich, ingestVars, auxVars>>

InitRate == RateOff /\ AlertOff /\ EnrichOff /\ IngestOff /\ AuxOff

NextRate ==
  \/ \E c \in Callers : \E op \in RateOps : RateLimitEnter(c, op)
  \/ \E c \in Callers : RateLimitWake(c)
  \/ \E c \in Callers : RequestCompletes(c)
  \/ Tick

SpecRate == InitRate /\ [][NextRate]_vars

(***************************************************************************)
(* Ingestion cycle: NewsScraperService in scraper.ts                       *)
(***************************************************************************)
\* variant whose cap lets a whole RSS feed through
MaxArticlesToProcessMore == MaxFeed

MaxArticlesToProcess == 10
ScraperReadabilityDefault == 5

\* generateArticleHash: a digest of the URL string and of nothing else;
\* distinct URLs have distinct digests
GenerateArticleHash(url) == <<"sha256", url>>

Raw(url, title, source) == [url |-> url, title |-> title, source |-> source]

\* variant that also compares the title
ExistsSameTitle(store, raw) ==
  \E a \in store : a.urlHash = GenerateArticleHash(raw.url) /\ a.title = raw.title

\* Article.findOne({ urlHash }) finds a document
ExistsInStore(store, raw) ==
  \E a \in store : a.urlHash = GenerateArticleHash(raw.url)

\* variant with a cap of 5
ArticlesToProcessHalf(all) == SubSeq(all, 1, Min(Len(all), 5))

\* scrapedArticles.slice(0, Math.min(scrapedArticles.length, 10))
ArticlesToProcess(all) == SubSeq(all, 1, Min(Len(all), MaxArticlesToProcess))

\* a well-formed reply of the provider to each operation
OkReply(op) ==
  CASE op = "sentiment" ->
         Json(ParsedObject([score |-> Num(7), confidence |-> Num(9),
                            label |-> Str("positive")]))
    [] op = "entities" ->
         Json(ParsedObject([person |-> Arr(2), organization |-> Arr(1),
                            location |-> Arr(0), technology |-> Undefined,
                            other |-> Arr(2)]))
    [] op = "keywords" ->
         Json(ParsedObject([keywords |-> Arr(12), topics |-> Arr(2)]))
    [] OTHER -> Json(ParsedNumber(75))

\* what the provider may answer in this environment
ProviderReplies(op, mode) ==
  IF mode = "ok" THEN {OkReply(op)}
  ELSE IF mode = "flaky"
    THEN CASE op = "sentiment" ->
                {OkReply(op), TransportError,
                 Json(ParsedObject([score |-> Str("high"), confidence |-> Num(9),
                                    label |-> Str("positive")]))}
           [] op = "entities" -> {OkReply(op), Unparseable}
           [] op = "keywords" -> {OkReply(op)}
           [] OTHER -> {OkReply(op)}
  ELSE {OkReply(op), TransportError, Unparseable}
       \cup (IF op = "sentiment"
               THEN {Json(ParsedObject([score |-> Str("high"), confidence |-> Num(9),
                                        label |-> Str("positive")]))}
               ELSE {})

CurNone ==
  [sentiment |-> FallbackSentiment, entities |-> FallbackEntities,
   keywordData |-> FallbackKeywords, readability |-> 0,
   outcomes |-> [op \in EnrichmentOps |-> "none"]]

\* new Article({...}) of processAndSaveArticles
NewArticle(raw, cur) ==
  [url |-> raw.url, urlHash |-> GenerateArticleHash(raw.url),
   title |-> raw.title, source |-> raw.source,
   sentiment |-> cur.sentiment, keywords |-> cur.keywordData.keywords,
   entities |-> cur.entities, readability |-> cur.readability,
   outcomes |-> cur.outcomes]

\* ArticleSchema validation of the sentiment sub-document
ValidArticle(doc) ==
  /\ doc.sentiment.score.t = "number"
  /\ doc.sentiment.score.n >= -Scale /\ doc.sentiment.score.n <= Scale
  /\ doc.sentiment.confidence.t = "number"
  /\ doc.sentiment.confidence.n >= 0 /\ doc.sentiment.confidence.n <= Scale
  /\ doc.sentiment.label \in {"positive", "negative", "neutral"}

\* the unique indexes on url and urlHash reject the insert
UniqueViolation(store, doc) ==
  \E a \in store : a.url = doc.url \/ a.urlHash = doc.urlHash

\* the cycle ends: scrapeAll returns
FinishCycle(rec, store) ==
  [rec EXCEPT !.pc = "idle", !.cycles = Min(@ + 1, CycleCap),
              !.snapshot = IF rec.cycles = 0 THEN store ELSE @]

\* the for loop of processAndSaveArticles moves to its next article
NextArticle(rec, store) ==
  IF rec.pos + 1 > Len(ArticlesToProcess(rec.all))
    THEN FinishCycle([rec EXCEPT !.pos = @ + 1], store)
    ELSE [rec EXCEPT !.pc = "check", !.pos = @ + 1]

CurrentRaw(rec) == ArticlesToProcess(rec.all)[rec.pos]

\* the loop body of processAndSaveArticles ends for the current article:
\* what became of it is kept in the history of the call
EndArticle(rec, fate, outcomes, store) ==
  NextArticle([rec EXCEPT !.log = Append(@, [pos |-> rec.pos,
                                              url |-> CurrentRaw(rec).url,
                                              fate |-> fate,
                                              outcomes |-> outcomes])],
              store)

\* a storage operation may fail while faults are left
StorageFaults == IF env.faultsLeft > 0 THEN {FALSE, TRUE} ELSE {FALSE}

\* an HTTP fetch of an upstream source may fail when the upstream is flaky
FetchFails == IF env.upstream = "flaky" THEN {FALSE, TRUE} ELSE {FALSE}

GuardianPlaceholder == "your_guardian_api_key_here"

\* variant without the test of the placeholder
KeyConfiguredNoPlaceholder(adapter, apiKey) == apiKey # ""

\* !apiKey, and for the Guardian apiKey === 'your_guardian_api_key_here'
KeyConfigured(adapter, apiKey) ==
  IF adapter = "guardian" THEN apiKey # "" /\ apiKey # GuardianPlaceholder
  ELSE apiKey # ""

\* feed.items.slice(0, source.settings.maxArticles), and the API replies
UpstreamItems(adapter, source) ==
  IF adapter = "rss"
    THEN SubSeq(feeds[adapter], 1, Min(Len(feeds[adapter]), source.maxArticles))
    ELSE feeds[adapter]

\* source.save(): the modified paths are written to the stored document
Persist(stored, copy, paths) ==
  [f \in DOMAIN stored |-> IF f \in paths THEN copy[f] ELSE stored[f]]

\* the time of a run, as the number of its cycle
Stamp(rec) == rec.cycles + 1

\* the try block of scrapeRSSFeeds for a source up to source.save()
SourceSucceeded(copy, stamp) ==
  [copy EXCEPT !.lastFetched = stamp, !.lastSuccessful = stamp, !.errorCount = 0]

\* the catch block of scrapeRSSFeeds for a source up to source.save()
SourceFailed(copy, stamp) ==
  [copy EXCEPT !.lastFetched = stamp, !.errorCount = @ + 1,
               !.lastError = "fetch failed"]

\* the history of the source: failures in a row, and the latest outcome
Noted(stored, outcome) ==
  [stored EXCEPT !.streak = IF outcome = "ok" THEN 0 ELSE Min(@ + 1, StreakCap),
                 !.latest = outcome]

\* scrapeAll goes on after an adapter returned `returned`
AfterAdapter(rec, returned, store) ==
  LET all == rec.all \o returned
      rec2 == [rec EXCEPT !.all = all, !.batch = <<>>, !.item = 1,
                          !.returned = Append(@, returned)]
  IN IF rec.adapter < Len(AdapterOrder)
       THEN [rec2 EXCEPT !.pc = "invoke", !.adapter = @ + 1]
       ELSE LET rec3 == [rec2 EXCEPT !.firstBatch = IF rec.cycles = 0
                                                      THEN Len(all) ELSE @]
            IN IF Len(all) > 0
                 THEN [rec3 EXCEPT !.pc = "check", !.pos = 1]
                 ELSE FinishCycle(rec3, store)

\* variant in which the error of an adapter escapes scrapeAll
AdapterThrewNoCatch(rec, store) ==
  [rec EXCEPT !.pc = "raised", !.raised = TRUE,
              !.failedAdapters = @ \cup {AdapterOrder[rec.adapter]}]

\* the adapter threw: the catch of scrapeAll around its call
AdapterThrew(rec, store) ==
  AfterAdapter([rec EXCEPT !.failedAdapters = @ \cup {AdapterOrder[rec.adapter]}],
               <<>>, store)

\* rateLimit() of the scraper followed by one HTTP request
SlotAndRequest(rec) ==
  [rec EXCEPT !.slots[AdapterOrder[rec.adapter]] = @ + 1,
              !.http[AdapterOrder[rec.adapter]] = @ + 1]

\* a storage error met in the first cycle of a run is counted
Faulted(rec, fails) ==
  [rec EXCEPT !.errors = IF fails /\ rec.cycles = 0 THEN @ + 1 ELSE @]

\* scrapeAll starts
StartCycle(r) ==
  /\ run[r].pc = "idle"
  /\ run[r].cycles < env.maxCycles
  /\ run' = [run EXCEPT ![r] =
        [@ EXCEPT !.pc = "invoke", !.adapter = 1, !.item = 1, !.all = <<>>,
                  !.batch = <<>>, !.pos = 0, !.log = <<>>,
                  !.slots = [a \in Adapters |-> 0],
                  !.http = [a \in Adapters |-> 0],
                  !.invoked = {}, !.failedAdapters = {}, !.returned = <<>>]]
  /\ UNCHANGED <<feeds, articles, env, rssSource, alertVars, enrich, rateVars, auxVars>>

\* the catch block of scrapeRSSFeeds for the source, its save included:
\* the articles pushed so far are returned, or the failing save throws
RssSourceFailure(r, rec, saveFails) ==
  LET copy == SourceFailed(rec.source, Stamp(rec))
  IN /\ rssSource' = Noted(IF saveFails THEN rssSource
                           ELSE Persist(rssSource, copy,
                                        {"lastFetched", "errorCount", "lastError"}),
                           "failed")
     /\ run' = [run EXCEPT ![r] =
           IF saveFails THEN AdapterThrew(rec, articles)
           ELSE AfterAdapter(rec, rec.batch, articles)]

\* an adapter is invoked and gets as far as the reply of its upstream:
\* scrapeRSSFeeds up to parser.parseURL, scrapeNewsAPI / scrapeGuardianAPI up
\* to axios.get
InvokeAdapter(r) ==
  /\ run[r].pc = "invoke"
  /\ LET adapter == AdapterOrder[run[r].adapter]
         rec == [run[r] EXCEPT !.invoked = @ \cup {adapter}]
     IN IF adapter = "rss"
          THEN \E findFails \in StorageFaults :
               \E fetchFails \in FetchFails :
               \E saveFails \in StorageFaults :
                 /\ ~(findFails /\ (fetchFails \/ saveFails))
                 /\ saveFails => fetchFails /\ rssSource.isActive
                 /\ fetchFails => rssSource.isActive
                 /\ env' = IF findFails \/ saveFails
                             THEN [env EXCEPT !.faultsLeft = @ - 1] ELSE env
                 /\ IF findFails
                      THEN /\ run' = [run EXCEPT ![r] =
                                         AdapterThrew(Faulted(rec, TRUE), articles)]
                           /\ UNCHANGED rssSource
                    ELSE IF ~rssSource.isActive
                      THEN /\ run' = [run EXCEPT ![r] =
                                         AfterAdapter(rec, <<>>, articles)]
                           /\ UNCHANGED rssSource
                    ELSE IF fetchFails
                      THEN RssSourceFailure(r,
                             [SlotAndRequest(Faulted(rec, saveFails))
                                EXCEPT !.source = rssSource],
                             saveFails)
                    ELSE /\ run' = [run EXCEPT ![r] =
                               [SlotAndRequest(rec) EXCEPT !.pc = "adapter",
                                                           !.source = rssSource]]
                         /\ UNCHANGED rssSource
          ELSE \E fetchFails \in FetchFails :
                 /\ fetchFails => KeyConfigured(adapter, env.keys[adapter])
                 /\ run' = [run EXCEPT ![r] =
                       IF ~KeyConfigured(adapter, env.keys[adapter])
                         THEN AfterAdapter(rec, <<>>, articles)
                       ELSE IF fetchFails
                         THEN AfterAdapter(SlotAndRequest(rec), <<>>, articles)
                       ELSE [SlotAndRequest(rec) EXCEPT !.pc = "adapter"]]
                 /\ UNCHANGED <<env, rssSource>>
  /\ UNCHANGED <<feeds, articles, alertVars, enrich, rateVars, auxVars>>

\* extractFullContent is called for a new item of the RSS feed and for the
\* truncated content of a NewsAPI item: one slot and one request; its own
\* failure is caught and gives an empty content
WithFullContent(rec) ==
  IF AdapterOrder[rec.adapter] \in {"rss", "newsapi"} THEN SlotAndRequest(rec)
  ELSE rec

\* an adapter handles one upstream item: pre-check, then push.  A failing
\* pre-check ends the source in scrapeRSSFeeds and makes the API adapters
\* return []
AdapterItem(r) ==
  /\ run[r].pc = "adapter"
  /\ run[r].item <= Len(UpstreamItems(AdapterOrder[run[r].adapter], run[r].source))
  /\ LET adapter == AdapterOrder[run[r].adapter]
         raw == UpstreamItems(adapter, run[r].source)[run[r].item]
     IN \E findFails \in StorageFaults :
        \E saveFails \in StorageFaults :
          /\ saveFails => findFails /\ adapter = "rss" /\ env.faultsLeft > 1
          /\ env' = [env EXCEPT !.faultsLeft =
                       @ - (IF findFails THEN 1 ELSE 0) - (IF saveFails THEN 1 ELSE 0)]
          /\ IF findFails /\ adapter = "rss"
               THEN RssSourceFailure(r, Faulted(run[r], TRUE), saveFails)
             ELSE /\ run' = [run EXCEPT ![r] =
                       IF findFails
                         THEN AfterAdapter(Faulted(@, TRUE), <<>>, articles)
                       ELSE IF ExistsInStore(articles, raw)
                         THEN [@ EXCEPT !.item = @ + 1]
                       ELSE [WithFullContent(@) EXCEPT !.item = @ + 1,
                                                       !.batch = Append(@, raw)]]
                  /\ UNCHANGED rssSource
  /\ UNCHANGED <<feeds, articles, alertVars, enrich, rateVars, auxVars>>

\* the items of the adapter are exhausted: scrapeRSSFeeds records the success
\* of the source (a failing save takes it to the catch block), and the
\* adapter returns its articles to scrapeAll
AdapterDone(r) ==
  /\ run[r].pc = "adapter"
  /\ run[r].item > Len(UpstreamItems(AdapterOrder[run[r].adapter], run[r].source))
  /\ IF AdapterOrder[run[r].adapter] = "rss"
       THEN \E saveFails \in StorageFaults :
            \E secondFails \in StorageFaults :
              /\ secondFails => saveFails /\ env.faultsLeft > 1
              /\ env' = [env EXCEPT !.faultsLeft =
                           @ - (IF saveFails THEN 1 ELSE 0)
                             - (IF secondFails THEN 1 ELSE 0)]
              /\ LET copy == SourceSucceeded(run[r].source, Stamp(run[r]))
                 IN IF saveFails
                      THEN RssSourceFailure(r,
                             [Faulted(run[r], secondFails) EXCEPT !.source = copy],
                             secondFails)
                      ELSE /\ rssSource' =
                                Noted(Persist(rssSource, copy,
                                        {"lastFetched", "lastSuccessful", "errorCount"}),
                                      "ok")
                           /\ run' = [run EXCEPT ![r] =
                                         AfterAdapter(@, run[r].batch, articles)]
       ELSE /\ run' = [run EXCEPT ![r] = AfterAdapter(@, run[r].batch, articles)]
            /\ UNCHANGED <<env, rssSource>>
  /\ UNCHANGED <<feeds, articles, alertVars, enrich, rateVars, auxVars>>

\* variant in which a failing lookup escapes the loop
ExistenceCheckNoCatch(r) ==
  /\ run[r].pc = "check"
  /\ LET raw == CurrentRaw(run[r])
     IN \E findFails \in StorageFaults :
          /\ env' = IF findFails THEN [env EXCEPT !.faultsLeft = @ - 1] ELSE env
          /\ run' = [run EXCEPT ![r] =
                IF findFails THEN [@ EXCEPT !.pc = "raised", !.raised = TRUE]
                ELSE IF ExistsInStore(articles, raw)
                  THEN EndArticle([@ EXCEPT !.skipped = @ \cup {raw}],
                                  "exists", CurNone.outcomes, articles)
                ELSE [@ EXCEPT !.pc = "sentiment", !.callsSinceCheck = 0,
                               !.cur = CurNone]]
  /\ UNCHANGED <<feeds, articles, rssSource, alertVars, enrich, rateVars, auxVars>>

\* processAndSaveArticles: the duplicate check at the top of the loop body;
\* a failing lookup is caught and the loop goes on
ExistenceCheck(r) ==
  /\ run[r].pc = "check"
  /\ LET raw == CurrentRaw(run[r])
     IN \E findFails \in StorageFaults :
          /\ env' = IF findFails THEN [env EXCEPT !.faultsLeft = @ - 1] ELSE env
          /\ run' = [run EXCEPT ![r] =
                IF findFails
                  THEN EndArticle([@ EXCEPT !.errors = IF run[r].cycles = 0
                                                         THEN @ + 1 ELSE @],
                                  "lookup_failed", CurNone.outcomes, articles)
                ELSE IF ExistsInStore(articles, raw)
                  THEN EndArticle([@ EXCEPT !.skipped = @ \cup {raw}],
                                  "exists", CurNone.outcomes, articles)
                ELSE [@ EXCEPT !.pc = "sentiment", !.callsSinceCheck = 0,
                               !.cur = CurNone]]
  /\ UNCHANGED <<feeds, articles, rssSource, alertVars, enrich, rateVars, auxVars>>

EnrichSentiment(r) ==
  /\ run[r].pc = "sentiment"
  /\ \E o \in ProviderReplies("sentiment", env.replies) :
       run' = [run EXCEPT ![r] =
         [@ EXCEPT !.pc = "entities", !.callsSinceCheck = @ + 1,
                   !.cur = [@ EXCEPT !.sentiment = AnalyzeSentiment(o),
                                     !.outcomes["sentiment"] = o.kind]]]
  /\ UNCHANGED <<feeds, articles, env, rssSource, alertVars, enrich, rateVars, auxVars>>

EnrichEntities(r) ==
  /\ run[r].pc = "entities"
  /\ \E o \in ProviderReplies("entities", env.replies) :
       run' = [run EXCEPT ![r] =
         [@ EXCEPT !.pc = "keywords", !.callsSinceCheck = @ + 1,
                   !.cur = [@ EXCEPT !.entities = ExtractEntities(o),
                                     !.outcomes["entities"] = o.kind]]]
  /\ UNCHANGED <<feeds, articles, env, rssSource, alertVars, enrich, rateVars, auxVars>>

EnrichKeywords(r) ==
  /\ run[r].pc = "keywords"
  /\ \E o \in ProviderReplies("keywords", env.replies) :
       run' = [run EXCEPT ![r] =
         [@ EXCEPT !.pc = "readability", !.callsSinceCheck = @ + 1,
                   !.cur = [@ EXCEPT !.keywordData = ExtractKeywords(o),
                                     !.outcomes["keywords"] = o.kind]]]
  /\ UNCHANGED <<feeds, articles, env, rssSource, alertVars, enrich, rateVars, auxVars>>

\* try { readability = await calculateReadability } catch { readability = 5 }
EnrichReadability(r) ==
  /\ run[r].pc = "readability"
  /\ \E o \in ProviderReplies("readability", env.replies) :
       LET res == CalculateReadability(o)
       IN run' = [run EXCEPT ![r] =
         [@ EXCEPT !.pc = "save", !.callsSinceCheck = @ + 1,
                   !.cur = [@ EXCEPT !.readability =
                                        IF res.throws THEN ScraperReadabilityDefault
                                        ELSE res.value,
                                     !.outcomes["readability"] = o.kind]]]
  /\ UNCHANGED <<feeds, articles, env, rssSource, alertVars, enrich, rateVars, auxVars>>

\* what article.save() does: "invalid", "duplicate", "failed" or "saved"
SaveOutcomes(store, doc, faultsLeft) ==
  IF ~ValidArticle(doc) THEN {"invalid"}
  ELSE IF UniqueViolation(store, doc) THEN {"duplicate"}
  ELSE {"saved"} \cup (IF faultsLeft > 0 THEN {"failed"} ELSE {})

\* variant without the try/catch around the loop body
SaveArticleNoCatch(r) ==
  /\ run[r].pc = "save"
  /\ LET doc == NewArticle(CurrentRaw(run[r]), run[r].cur)
     IN \E out \in SaveOutcomes(articles, doc, env.faultsLeft) :
          /\ articles' = IF out = "saved" THEN articles \cup {doc} ELSE articles
          /\ env' = IF out = "failed" THEN [env EXCEPT !.faultsLeft = @ - 1] ELSE env
          /\ run' = [run EXCEPT ![r] =
                IF out = "saved"
                  THEN EndArticle(@, out, run[r].cur.outcomes, articles')
                ELSE [@ EXCEPT !.pc = "raised", !.raised = TRUE]]
  /\ UNCHANGED <<feeds, rssSource, alertVars, enrich, rateVars, auxVars>>

\* await article.save() inside the try of the loop body; any error is caught
\* and the loop goes on
SaveArticle(r) ==
  /\ run[r].pc = "save"
  /\ LET doc == NewArticle(CurrentRaw(run[r]), run[r].cur)
     IN \E out \in SaveOutcomes(articles, doc, env.faultsLeft) :
          /\ articles' = IF out = "saved" THEN articles \cup {doc} ELSE articles
          /\ env' = IF out = "failed" THEN [env EXCEPT !.faultsLeft = @ - 1] ELSE env
          /\ run' = [run EXCEPT ![r] =
                EndArticle(
                  [@ EXCEPT !.discarded = IF out = "duplicate" THEN @ + 1 ELSE @,
                            !.errors = IF out \in {"invalid", "failed"}
                                            /\ run[r].cycles = 0
                                         THEN @ + 1 ELSE @],
                  out, run[r].cur.outcomes, articles')]
  /\ UNCHANGED <<feeds, rssSource, alertVars, enrich, rateVars, auxVars>>

NextIngest ==
  \/ \E r \in Runs : StartCycle(r)
  \/ \E r \in Runs : InvokeAdapter(r)
  \/ \E r \in Runs : AdapterItem(r)
  \/ \E r \in Runs : AdapterDone(r)
  \/ \E r \in Runs : ExistenceCheck(r)
  \/ \E r \in Runs : EnrichSentiment(r)
  \/ \E r \in Runs : EnrichEntities(r)
  \/ \E r \in Runs : EnrichKeywords(r)
  \/ \E r \in Runs : EnrichReadability(r)
  \/ \E r \in Runs : SaveArticle(r)

RunIdle == [RunOff EXCEPT !.pc = "idle"]

\* the RSS feed serves n articles with distinct URLs
RssFeed(n) == [i \in 1..n |-> Raw(i, 1, "rss")]

\* one run executing two cycles in succession against the same upstream
InitCycle ==
  /\ \E n \in 0..MaxFeed :
     \E x \in {<<>>, <<Raw(1, 2, "newsapi")>>} :
     \E y \in {<<>>, <<Raw(MaxFeed + 1, 1, "guardian")>>} :
       feeds = [a \in Adapters |->
                  CASE a = "rss" -> RssFeed(n) [] a = "newsapi" -> x [] OTHER -> y]
  /\ articles = {}
  /\ run = [r \in Runs |-> IF r = "cron" THEN RunIdle ELSE RunOff]
  /\ \E f \in 0..1 : env = Env(2, "ok", f, "up", AllKeys)
  /\ rssSource = RssSourceDoc(TRUE)
  /\ AlertOff /\ EnrichOff /\ RateOff /\ AuxOff

SpecCycle == InitCycle /\ [][NextIngest]_vars

\* a scheduled cycle and a manual trigger running concurrently
InitRace ==
  /\ \E n \in 1..MaxRaceFeed :
     \E x \in {<<>>, <<Raw(1, 2, "newsapi")>>} :
       feeds = [a \in Adapters |->
                  CASE a = "rss" -> RssFeed(n) [] a = "newsapi" -> x [] OTHER -> <<>>]
  /\ articles = {}
  /\ run = [r \in Runs |-> RunIdle]
  /\ env = Env(1, "ok", 0, "up", AllKeys)
  /\ rssSource = RssSourceDoc(TRUE)
  /\ AlertOff /\ EnrichOff /\ RateOff /\ AuxOff

SpecRace == InitRace /\ [][NextIngest]_vars

\* one cycle against a provider that may fail or answer garbage
InitEnrichStore ==
  /\ \E n \in 1..MaxRaceFeed :
       feeds = [a \in Adapters |-> IF a = "rss" THEN RssFeed(n) ELSE <<>>]
  /\ articles = {}
  /\ run = [r \in Runs |-> IF r = "cron" THEN RunIdle ELSE RunOff]
  /\ env = Env(1, "any", 0, "up", AllKeys)
  /\ rssSource = RssSourceDoc(TRUE)
  /\ AlertOff /\ EnrichOff /\ RateOff /\ AuxOff

SpecEnrichStore == InitEnrichStore /\ [][NextIngest]_vars

\* one cycle in which the upstream fetches, the storage operations and the
\* enrichment provider may all fail
InitFaulty ==
  /\ \E n \in 1..MaxRaceFeed :
     \E x \in {<<>>, <<Raw(1, 2, "newsapi")>>} :
       feeds = [a \in Adapters |->
                  CASE a = "rss" -> RssFeed(n) [] a = "newsapi" -> x
                    [] OTHER -> <<Raw(MaxRaceFeed + 1, 1, "guardian")>>]
  /\ articles = {}
  /\ run = [r \in Runs |-> IF r = "cron" THEN RunIdle ELSE RunOff]
  /\ \E f \in 0..MaxFaults : env = Env(1, "flaky", f, "flaky", AllKeys)
  /\ \E active \in BOOLEAN : rssSource = RssSourceDoc(active)
  /\ AlertOff /\ EnrichOff /\ RateOff /\ AuxOff

SpecFaulty == InitFaulty /\ [][NextIngest]_vars

\* the same with one article per adapter; the scheduler fires the cycle and
\* every await of it settles
InitAdapters ==
  /\ \E x \in {<<>>, <<Raw(1, 2, "newsapi")>>} :
       feeds = [a \in Adapters |->
                  CASE a = "rss" -> RssFeed(1) [] a = "newsapi" -> x
                    [] OTHER -> <<Raw(2, 1, "guardian")>>]
  /\ articles = {}
  /\ run = [r \in Runs |-> IF r = "cron" THEN RunIdle ELSE RunOff]
  /\ \E f \in 0..MaxFaults : env = Env(1, "flaky", f, "flaky", AllKeys)
  /\ \E active \in BOOLEAN : rssSource = RssSourceDoc(active)
  /\ AlertOff /\ EnrichOff /\ RateOff /\ AuxOff

SpecAdapters == InitAdapters /\ [][NextIngest]_vars /\ WF_vars(NextIngest)

\* cycles in succession against an RSS feed whose fetch fails now and then
InitRss ==
  /\ \E n \in 0..1 : \E x \in {<<>>, <<Raw(2, 1, "newsapi")>>} :
       feeds = [a \in Adapters |->
                  CASE a = "rss" -> RssFeed(n) [] a = "newsapi" -> x [] OTHER -> <<>>]
  /\ articles = {}
  /\ run = [r \in Runs |-> IF r = "cron" THEN RunIdle ELSE RunOff]
  /\ env = Env(CycleCap, "ok", 0, "flaky", AllKeys)
  /\ rssSource = RssSourceDoc(TRUE)
  /\ AlertOff /\ EnrichOff /\ RateOff /\ AuxOff

SpecRss == InitRss /\ [][NextIngest]_vars

\* one cycle with every configuration of the two API keys
InitKeys ==
  /\ \E n \in 0..1 :
       feeds = [a \in Adapters |->
                  CASE a = "rss" -> RssFeed(n)
                    [] a = "newsapi" -> <<Raw(2, 1, "newsapi")>>
                    [] OTHER -> <<Raw(3, 1, "guardian")>>]
  /\ articles = {}
  /\ run = [r \in Runs |-> IF r = "cron" THEN RunIdle ELSE RunOff]
  /\ \E kn \in {"", "k"} : \E kg \in {"", GuardianPlaceholder, "k"} :
     \E up \in {"up", "flaky"} :
       env = Env(1, "ok", 0, up, [newsapi |-> kn, guardian |-> kg])
  /\ rssSource = RssSourceDoc(TRUE)
  /\ AlertOff /\ EnrichOff /\ RateOff /\ AuxOff

SpecKeys == InitKeys /\ [][NextIngest]_vars

(***************************************************************************)
(* HTML-page adapter: WebScraper in webScraper.ts, as called by POST with  *)
(* method web, which hands what it scraped to processAndSaveArticles       *)
(***************************************************************************)
NEWS_SOURCES == <<"BBC News", "Reuters", "CNN", "The Guardian">>
SourceMaxArticles == 10    \* maxArticles of every entry of NEWS_SOURCES
RequestDelay == 1000       \* requestDelay, in ms

\* the url of the i-th article link on the listing page of source s
WebUrl(s, i) == 100 * s + i

\* NEWS_SOURCES.find(s => s.name.toLowerCase() === sourceName.toLowerCase())
SourceIndex(name) == CHOOSE i \in DOMAIN NEWS_SOURCES : NEWS_SOURCES[i] = name

\* scrapeArticleLinks: links.slice(0, maxArticles)
ArticleLinks(w, s) ==
  [i \in 1..Min(w.served[s], SourceMaxArticles) |-> WebUrl(s, i)]

\* a page fetch may fail while the upstream is flaky and failures are left
WebFetchFails ==
  IF env.upstream = "flaky" /\ web.failures < MaxWebFailures
    THEN {FALSE, TRUE} ELSE {FALSE}

\* makeRequest: a page of source s is fetched; what was slept since the
\* previous fetch of the call is noted
MakeRequest(w, s, page, fails) ==
  [w EXCEPT !.gap = [kind |-> IF w.lastSrc = 0 THEN "first"
                              ELSE IF w.lastSrc = s THEN "within"
                              ELSE "between",
                     after |-> w.lastPage, page |-> page, ms |-> w.slept],
            !.lastSrc = s, !.lastPage = page, !.slept = 0,
            !.failures = IF fails THEN @ + 1 ELSE @]

\* sleep(ms)
Sleep(w, ms) == [w EXCEPT !.slept = @ + ms]

\* the source is done: scrapeAllSources sleeps requestDelay * 2 and goes to
\* the next source or returns; scrapeSource returns
AfterSource(w) ==
  IF w.mode = "all"
    THEN LET w2 == Sleep(w, RequestDelay * 2)
         IN IF w.src < Len(NEWS_SOURCES)
              THEN [w2 EXCEPT !.pc = "links", !.src = @ + 1,
                              !.links = <<>>, !.link = 0]
              ELSE [w2 EXCEPT !.pc = "done"]
    ELSE [w EXCEPT !.pc = "done"]

\* POST with method web: scrapeAllSources, or scrapeSource(source)
StartWebScrape(r) ==
  /\ run[r].pc = "idle"
  /\ run[r].cycles < env.maxCycles
  /\ web.pc = "idle"
  /\ web' = [web EXCEPT !.pc = "links",
                        !.src = IF web.mode = "all" THEN 1
                                ELSE SourceIndex(web.mode),
                        !.links = <<>>, !.link = 0, !.allArticles = <<>>,
                        !.lastSrc = 0, !.lastPage = "none", !.slept = 0,
                        !.gap = [kind |-> "none", after |-> "none",
                                 page |-> "none", ms |-> 0]]
  /\ run' = [run EXCEPT ![r] =
        [@ EXCEPT !.pc = "web", !.all = <<>>, !.pos = 0, !.log = <<>>]]
  /\ UNCHANGED <<feeds, articles, env, rssSource, alertVars, enrich, rateVars,
                 dash, analytics, cacheRun, cacheEnv, restVars>>

\* scrapeArticleLinks(source): the listing page is fetched; a failure is
\* caught and gives no links
ScrapeArticleLinks ==
  /\ web.pc = "links"
  /\ \E fails \in WebFetchFails :
       LET w == MakeRequest(web, web.src, "listing", fails)
           links == IF fails THEN <<>> ELSE ArticleLinks(web, web.src)
       IN web' = IF links = <<>> THEN AfterSource(w)
                 ELSE [w EXCEPT !.pc = "article", !.links = links, !.link = 1]
  /\ UNCHANGED <<alertVars, enrich, rateVars, ingestVars,
                 dash, analytics, cacheRun, cacheEnv, restVars>>

\* scrapeArticle(link, source), then sleep(requestDelay): the article page is
\* fetched; a failure is caught and gives null, which is not pushed
ScrapeArticle ==
  /\ web.pc = "article"
  /\ \E fails \in WebFetchFails :
       LET url == web.links[web.link]
           w == MakeRequest(web, web.src, "article", fails)
           w2 == Sleep([w EXCEPT !.allArticles =
                                    IF fails THEN @
                                    ELSE Append(@, Raw(url, 1, NEWS_SOURCES[web.src]))],
                       RequestDelay)
       IN web' = IF web.link < Len(web.links) THEN [w2 EXCEPT !.link = @ + 1]
                 ELSE AfterSource(w2)
  /\ UNCHANGED <<alertVars, enrich, rateVars, ingestVars,
                 dash, analytics, cacheRun, cacheEnv, restVars>>

\* the route hands scrapedArticles.map(...) to processAndSaveArticles
WebHandOver(r) ==
  /\ web.pc = "done"
  /\ run[r].pc = "web"
  /\ web' = [web EXCEPT !.pc = "idle"]
  /\ run' = [run EXCEPT ![r] =
        LET rec == [@ EXCEPT !.all = web.allArticles,
                             !.firstBatch = IF run[r].cycles = 0
                                              THEN Len(web.allArticles) ELSE @]
        IN IF Len(web.allArticles) > 0
             THEN [rec EXCEPT !.pc = "check", !.pos = 1]
             ELSE FinishCycle(rec, articles)]
  /\ UNCHANGED <<feeds, articles, env, rssSource, alertVars, enrich, rateVars,
                 dash, analytics, cacheRun, cacheEnv, restVars>>

NextWebIngest ==
  \/ \E r \in Runs : StartWebScrape(r)
  \/ ScrapeArticleLinks
  \/ ScrapeArticle
  \/ \E r \in Runs : WebHandOver(r)
  \/ \E r \in Runs : ExistenceCheck(r)
  \/ \E r \in Runs : EnrichSentiment(r)
  \/ \E r \in Runs : EnrichEntities(r)
  \/ \E r \in Runs : EnrichKeywords(r)
  \/ \E r \in Runs : EnrichReadability(r)
  \/ \E r \in Runs : SaveArticle(r)

\* the scraper before a call: what to scrape and how many article links the
\* listing page of each source shows
WebIdle(mode, served) ==
  [pc |-> "idle", mode |-> mode, served |-> served, src |-> 0, links |-> <<>>,
   link |-> 0, allArticles |-> <<>>, lastSrc |-> 0, lastPage |-> "none",
   slept |-> 0, failures |-> 0,
   gap |-> [kind |-> "none", after |-> "none", page |-> "none", ms |-> 0]]

\* one POST with method web, for all sources or for one of them
InitWeb ==
  /\ feeds = [a \in Adapters |-> <<>>]
  /\ articles = {}
  /\ run = [r \in Runs |-> IF r = "manual" THEN RunIdle ELSE RunOff]
  /\ env = Env(1, "ok", 0, "flaky", AllKeys)
  /\ rssSource = RssSourceDoc(TRUE)
  /\ \E mode \in {"all"} \cup {NEWS_SOURCES[i] : i \in DOMAIN NEWS_SOURCES} :
     \E served \in [DOMAIN NEWS_SOURCES -> 0..MaxWebLinks] :
       web = WebIdle(mode, served)
  /\ AlertOff /\ EnrichOff /\ RateOff /\ DashOff /\ CacheOff /\ RestOff

SpecWeb == InitWeb /\ [][NextWebIngest]_vars

\* POST with method web again and again against sources that keep showing
\* the same links, nothing failing
InitWebLive ==
  /\ feeds = [a \in Adapters |-> <<>>]
  /\ articles = {}
  /\ run = [r \in Runs |-> IF r = "manual" THEN RunIdle ELSE RunOff]
  /\ env = Env(CycleCap + 1, "ok", 0, "up", AllKeys)
  /\ rssSource = RssSourceDoc(TRUE)
  /\ \E served \in [DOMAIN NEWS_SOURCES -> {0, 1, SourceMaxArticles}] :
       web = WebIdle("all", served)
  /\ AlertOff /\ EnrichOff /\ RateOff /\ DashOff /\ CacheOff /\ RestOff

SpecWebLive == InitWebLive /\ [][NextWebIngest]_vars /\ WF_vars(NextWebIngest)

\* the scheduled cycle again and again against feeds that keep serving the
\* same articles, nothing failing
InitCycleLive ==
  /\ \E n \in 0..MaxFeed :
     \E x \in {<<>>, <<Raw(1, 2, "newsapi")>>} :
     \E y \in {<<>>, <<Raw(MaxFeed + 1, 1, "guardian")>>} :
       feeds = [a \in Adapters |->
                  CASE a = "rss" -> RssFeed(n) [] a = "newsapi" -> x [] OTHER -> y]
  /\ articles = {}
  /\ run = [r \in Runs |-> IF r = "cron" THEN RunIdle ELSE RunOff]
  /\ env = Env(CycleCap + 1, "ok", 0, "up", AllKeys)
  /\ rssSource = RssSourceDoc(TRUE)
  /\ AlertOff /\ EnrichOff /\ RateOff /\ AuxOff

SpecCycleLive == InitCycleLive /\ [][NextIngest]_vars /\ WF_vars(NextIngest)

(***************************************************************************)
(* POST /api/web-scraper: scrape, then per article analyse and / or save   *)
(* with Article.create, without going through processAndSaveArticles       *)
(***************************************************************************)
\* a path of the document that was not given a value
Absent == 0 - 1

\* articleData of the route as the Article model takes it: description,
\* urlHash and metrics are not given; a sentiment label string is given for
\* the nested path sentiment, which leaves score, confidence and label unset;
\* the array paths default to empty arrays and take what sentimentData holds
WebArticleData(raw, sentimentData) ==
  [url |-> raw.url, urlHash |-> Undefined,
   title |-> raw.title, source |-> raw.source,
   sentiment |-> [score |-> Undefined, confidence |-> Undefined, label |-> ""],
   keywords |-> IF sentimentData = Null THEN 0 ELSE sentimentData.keywords,
   entities |-> IF sentimentData = Null THEN FallbackEntities
                ELSE [c \in DOMAIN FallbackEntities |->
                        IF c \in {"organization", "person", "technology"}
                          THEN sentimentData.entities[c] ELSE 0],
   readability |-> Absent,
   outcomes |-> IF sentimentData = Null THEN CurNone.outcomes
                ELSE sentimentData.outcomes]

\* variant in which the model accepts every document
CreateValidNoSchema(doc) == TRUE

\* validation run by Article.create: required urlHash, and the required and
\* ranged paths of the sentiment sub-document
CreateValid(doc) == doc.urlHash # Undefined /\ ValidArticle(doc)

\* the loop of the route moves to its next article, or the route responds
NextPostArticle(rec, store) ==
  IF rec.pos + 1 > Len(rec.all) THEN FinishCycle([rec EXCEPT !.pos = @ + 1], store)
  ELSE [rec EXCEPT !.pc = IF web.analyzeSentiment THEN "post_analyze"
                          ELSE "post_save",
                   !.pos = @ + 1, !.cur = Null]

\* POST /api/web-scraper: scrapeAllSources, or scrapeSource(source)
StartWebScraperPost(r) ==
  /\ run[r].pc = "idle"
  /\ run[r].cycles < env.maxCycles
  /\ web.pc = "idle"
  /\ "saveToDB" \in DOMAIN web
  /\ web' = [web EXCEPT !.pc = "links",
                        !.src = IF web.mode = "all" THEN 1
                                ELSE SourceIndex(web.mode),
                        !.links = <<>>, !.link = 0, !.allArticles = <<>>,
                        !.lastSrc = 0, !.lastPage = "none", !.slept = 0,
                        !.gap = [kind |-> "none", after |-> "none",
                                 page |-> "none", ms |-> 0]]
  /\ run' = [run EXCEPT ![r] =
        [@ EXCEPT !.pc = "web_post", !.all = <<>>, !.pos = 0, !.log = <<>>]]
  /\ UNCHANGED <<feeds, articles, env, rssSource, alertVars, enrich, rateVars,
                 dash, analytics, cacheRun, cacheEnv, restVars>>

\* the scrape returned: the loop over scrapedArticles starts when saveToDB or
\* analyzeSentiment is set, else the route responds
WebPostScraped(r) ==
  /\ web.pc = "done"
  /\ run[r].pc = "web_post"
  /\ web' = [web EXCEPT !.pc = "idle"]
  /\ run' = [run EXCEPT ![r] =
        LET rec == [@ EXCEPT !.all = web.allArticles]
        IN IF web.saveToDB \/ web.analyzeSentiment
             THEN NextPostArticle(rec, articles)
             ELSE FinishCycle(rec, articles)]
  /\ UNCHANGED <<feeds, articles, env, rssSource, alertVars, enrich, rateVars,
                 dash, analytics, cacheRun, cacheEnv, restVars>>

\* analyzeSentiment, extractEntities and extractKeywords of the route for one
\* article; sentimentData is built from what they return
PostAnalyze(r) ==
  /\ run[r].pc = "post_analyze"
  /\ \E s \in ProviderReplies("sentiment", env.replies) :
     \E e \in ProviderReplies("entities", env.replies) :
     \E k \in ProviderReplies("keywords", env.replies) :
       LET sentimentData ==
             [sentiment |-> AnalyzeSentiment(s),
              entities |-> ExtractEntities(e),
              keywords |-> ExtractKeywords(k).keywords,
              outcomes |-> [op \in EnrichmentOps |->
                              CASE op = "sentiment" -> s.kind
                                [] op = "entities" -> e.kind
                                [] op = "keywords" -> k.kind
                                [] OTHER -> "none"]]
       IN run' = [run EXCEPT ![r] =
             IF web.saveToDB THEN [@ EXCEPT !.pc = "post_save",
                                           !.cur = sentimentData]
             ELSE NextPostArticle(@, articles)]
  /\ UNCHANGED <<feeds, articles, env, rssSource, alertVars, enrich, rateVars, auxVars>>

\* Article.findOne({ url }), then Article.create(articleData) when nothing was
\* found; an error of create is caught and the loop goes on
PostCreate(r) ==
  /\ run[r].pc = "post_save"
  /\ LET raw == run[r].all[run[r].pos]
         doc == WebArticleData(raw, run[r].cur)
         exists == \E a \in articles : a.url = raw.url
         created == ~exists /\ CreateValid(doc)
     IN /\ articles' = IF created THEN articles \cup {doc} ELSE articles
        /\ run' = [run EXCEPT ![r] =
              NextPostArticle(
                [@ EXCEPT !.log = Append(@, [pos |-> run[r].pos, url |-> raw.url,
                                             fate |-> IF exists THEN "exists"
                                                      ELSE IF created THEN "saved"
                                                      ELSE "invalid",
                                             outcomes |-> doc.outcomes])],
                articles')]
  /\ UNCHANGED <<feeds, env, rssSource, alertVars, enrich, rateVars, auxVars>>

NextWebPost ==
  \/ NextWebIngest
  \/ \E r \in Runs : StartWebScraperPost(r)
  \/ \E r \in Runs : WebPostScraped(r)
  \/ \E r \in Runs : PostAnalyze(r)
  \/ \E r \in Runs : PostCreate(r)

\* two requests in succession, each POST /api/web-scraper with some options
\* or POST with method web, against a provider that may fail
InitWebPost ==
  /\ feeds = [a \in Adapters |-> <<>>]
  /\ articles = {}
  /\ run = [r \in Runs |-> IF r = "manual" THEN RunIdle ELSE RunOff]
  /\ env = Env(2, "flaky", 0, "up", AllKeys)
  /\ rssSource = RssSourceDoc(TRUE)
  /\ \E served \in [DOMAIN NEWS_SOURCES -> 0..1] :
     \E saveToDB \in BOOLEAN : \E analyzeSentiment \in BOOLEAN :
       /\ Cardinality({s \in DOMAIN served : served[s] = 1}) <= MaxPostArticles
       /\ web = WebIdle("all", served)
                  @@ [saveToDB |-> saveToDB, analyzeSentiment |-> analyzeSentiment]
  /\ AlertOff /\ EnrichOff /\ RateOff /\ DashOff /\ CacheOff /\ RestOff

SpecWebPost == InitWebPost /\ [][NextWebPost]_vars

(***************************************************************************)
(* SchedulerService: start, stop, getStatus and the daily analytics job    *)
(* cron.schedule validates its expression and throws on an invalid one;    *)
(* whether the cron library has task.destroy depends on its version.       *)
(***************************************************************************)
\* cron.schedule(expression, job): one more task of that job is registered
\* with the cron library and pushed on this.tasks
Schedule(s, job) ==
  [s EXCEPT !.tasks = Append(@, job), !.registered[job] = @ + 1]

\* the scheduler after an operation whose outcome is noted
Did(s, op, outcome) == [s EXCEPT !.last = [op |-> op, outcome |-> outcome]]

\* start()
Start ==
  /\ sched.pc = "on"
  /\ Len(sched.tasks) < MaxTasks
  /\ sched' =
       IF sched.isSchedulerRunning THEN Did(sched, "start", "already running")
       ELSE IF ~sched.valid["scraper"] THEN Did(sched, "start", "threw")
       ELSE LET two == Schedule(Schedule(sched, "scraper"), "alerts")
            IN IF ~sched.valid["analytics"] THEN Did(two, "start", "threw")
               ELSE Did([Schedule(two, "analytics")
                           EXCEPT !.isSchedulerRunning = TRUE],
                        "start", "started")
  /\ UNCHANGED <<alertVars, enrich, rateVars, ingestVars, dash, analytics,
                 cacheRun, cacheEnv, web, systemLogs, cached, call>>

\* variant of stop() that forgets to destroy and drop its tasks
StopKeepsTasks ==
  /\ sched.pc = "on"
  /\ sched' =
       IF ~sched.isSchedulerRunning THEN Did(sched, "stop", "not running")
       ELSE Did([sched EXCEPT !.isSchedulerRunning = FALSE], "stop", "stopped")
  /\ UNCHANGED <<alertVars, enrich, rateVars, ingestVars, dash, analytics,
                 cacheRun, cacheEnv, web, systemLogs, cached, call>>

\* stop(): task.destroy() on every task, or a TypeError at the first one
Stop ==
  /\ sched.pc = "on"
  /\ sched' =
       IF ~sched.isSchedulerRunning THEN Did(sched, "stop", "not running")
       ELSE IF ~sched.hasDestroy THEN Did(sched, "stop", "threw")
       ELSE Did([sched EXCEPT !.tasks = <<>>,
                              !.registered =
                                 [j \in DOMAIN @ |->
                                    @[j] - Cardinality({i \in DOMAIN sched.tasks :
                                                          sched.tasks[i] = j})],
                              !.isSchedulerRunning = FALSE],
                "stop", "stopped")
  /\ UNCHANGED <<alertVars, enrich, rateVars, ingestVars, dash, analytics,
                 cacheRun, cacheEnv, web, systemLogs, cached, call>>

\* getStatus()
GetStatus ==
  /\ sched.pc = "on"
  /\ sched' = Did(sched, "getStatus",
                  IF sched.isSchedulerRunning THEN "isRunning: true"
                  ELSE "isRunning: false")
  /\ UNCHANGED <<alertVars, enrich, rateVars, ingestVars, dash, analytics,
                 cacheRun, cacheEnv, web, systemLogs, cached, call>>

\* the cron library fires a registered analytics task: the job logs two
\* lines and returns; it calls nothing
AnalyticsJob ==
  /\ sched.pc = "on"
  /\ sched.registered["analytics"] > 0
  /\ sched.fired < MaxFirings
  /\ sched' = [sched EXCEPT !.fired = @ + 1]
  /\ UNCHANGED <<alertVars, enrich, rateVars, ingestVars, dash, analytics,
                 cacheRun, cacheEnv, web, systemLogs, cached, call>>

NextScheduler ==
  \/ Start
  \/ Stop
  \/ GetStatus
  \/ AnalyticsJob

\* the singleton as constructed, for every validity of the two configurable
\* cron expressions and both kinds of cron library
InitScheduler ==
  /\ \E vs \in BOOLEAN : \E va \in BOOLEAN : \E hasDestroy \in BOOLEAN :
       sched = [pc |-> "on", isSchedulerRunning |-> FALSE, tasks |-> <<>>,
                registered |-> [j \in {"scraper", "alerts", "analytics"} |-> 0],
                valid |-> [scraper |-> vs, analytics |-> va],
                hasDestroy |-> hasDestroy, fired |-> 0,
                last |-> [op |-> "none", outcome |-> "none"]]
  /\ AlertOff /\ EnrichOff /\ RateOff /\ IngestOff
  /\ DashOff /\ CacheOff /\ WebOff /\ LogsOff /\ ConnOff /\ CallOff

SpecScheduler == InitScheduler /\ [][NextScheduler]_vars

(***************************************************************************)
(* Dashboard metrics: generateDashboardMetrics in analytics.ts             *)
(* Times are in hours relative to the call: an article of age a was        *)
(* published a hours before `now` (a negative age is a date in the         *)
(* future).  Means of scores are in tenths, as exact fractions.            *)
(* The recentAlerts count is not modelled.                                 *)
(***************************************************************************)
Timeframes == {"hour", "day", "week", "month", "other"}
Limits == {1, 1000}
Labels == {"positive", "negative", "neutral"}

\* now - startDate, in hours: subHours(now, 24), subDays(now, 30 / 90 / 365)
WindowHours(timeframe) ==
  CASE timeframe = "hour" -> 24
    [] timeframe = "day" -> 30 * 24
    [] timeframe = "week" -> 90 * 24
    [] timeframe = "month" -> 365 * 24
    [] OTHER -> 30 * 24

\* x / y on numbers: 0 / 0 is NaN, x / 0 is infinite
Divide(x, y) ==
  IF y = 0 THEN [t |-> IF x = 0 THEN "nan" ELSE "infinity", num |-> 0, den |-> 1]
  ELSE [t |-> "number", num |-> x, den |-> y]

Zero == [t |-> "number", num |-> 0, den |-> 1]

\* articles.reduce((sum, article) => sum + article.sentiment.score, 0)
RECURSIVE ScoreSum(_)
ScoreSum(arts) ==
  IF arts = <<>> THEN 0 ELSE Head(arts).score + ScoreSum(Tail(arts))

\* variant without the test of the length
MeanScoreUnguarded(arts) == Divide(ScoreSum(arts), Len(arts))

\* n > 0 ? articles.reduce(...) / n : 0
MeanScore(arts) ==
  IF Len(arts) > 0 THEN Divide(ScoreSum(arts), Len(arts)) ELSE Zero

\* .sort({ publishedAt: -1 }): newest first
RECURSIVE SortByAge(_)
SortByAge(S) ==
  IF S = {} THEN <<>>
  ELSE LET a == CHOOSE x \in S : \A y \in S : x.age <= y.age
       IN <<a>> \o SortByAge(S \ {a})

\* Article.find({ publishedAt: { $gte: startDate, $lte: now } }).sort().limit()
FindWindow(docs, timeframe, limit) ==
  LET hits == SortByAge({a \in docs : a.age <= WindowHours(timeframe) /\ a.age >= 0})
  IN SubSeq(hits, 1, Min(Len(hits), limit))

\* acc[article.sentiment.label]++ over the articles
SentimentDistribution(arts) ==
  [l \in Labels |-> Cardinality({i \in DOMAIN arts : arts[i].label = l})]

\* counts[key].count++ ; counts[key].sentiment += score, keys in insertion order
AddTo(counts, key, score) ==
  IF \E i \in DOMAIN counts : counts[i].key = key
    THEN [i \in DOMAIN counts |->
            IF counts[i].key = key
              THEN [counts[i] EXCEPT !.count = @ + 1, !.sentiment = @ + score]
              ELSE counts[i]]
    ELSE Append(counts, [key |-> key, count |-> 1, sentiment |-> score])

RECURSIVE Tally(_, _)
Tally(counts, pairs) ==
  IF pairs = <<>> THEN counts
  ELSE Tally(AddTo(counts, Head(pairs).key, Head(pairs).score), Tail(pairs))

\* articles.forEach(article => article.keywords.forEach(...))
RECURSIVE KeywordPairs(_)
KeywordPairs(arts) ==
  IF arts = <<>> THEN <<>>
  ELSE [i \in DOMAIN Head(arts).keywords |->
          [key |-> Head(arts).keywords[i], score |-> Head(arts).score]]
       \o KeywordPairs(Tail(arts))

SourcePairs(arts) ==
  [i \in DOMAIN arts |-> [key |-> arts[i].source, score |-> arts[i].score]]

\* .sort((a, b) => b.count - a.count), a stable sort
InsertByCount(sorted, e) ==
  LET k == Cardinality({i \in DOMAIN sorted : sorted[i].count >= e.count})
  IN SubSeq(sorted, 1, k) \o <<e>> \o SubSeq(sorted, k + 1, Len(sorted))

RECURSIVE SortByCountDesc(_)
SortByCountDesc(s) ==
  IF s = <<>> THEN <<>>
  ELSE InsertByCount(SortByCountDesc(SubSeq(s, 1, Len(s) - 1)), s[Len(s)])

TopKept == 10

\* Object.entries(counts).map(...).sort(...).slice(0, 10)
Top(counts) ==
  LET mapped == [i \in DOMAIN counts |->
                   [key |-> counts[i].key, count |-> counts[i].count,
                    sentiment |-> IF counts[i].count > 0
                                    THEN Divide(counts[i].sentiment, counts[i].count)
                                    ELSE Zero]]
      sorted == SortByCountDesc(mapped)
  IN SubSeq(sorted, 1, Min(Len(sorted), TopKept))

MaxTrendDays == 30

\* Math.min(Math.ceil((endDate - startDate) / one day), 30)
TrendDays(timeframe) == Min((WindowHours(timeframe) + 23) \div 24, MaxTrendDays)

\* Article.find({ publishedAt: { $gte: dayStart, $lt: dayEnd } }) for day i
DayArticles(docs, timeframe, i) ==
  SortByAge({a \in docs :
               /\ 24 * i - WindowHours(timeframe) <= -a.age
               /\ -a.age < 24 * (i + 1) - WindowHours(timeframe)})

\* generateSimpleTrend: one point per day, from startDate on
GenerateSimpleTrend(docs, timeframe, type) ==
  [k \in 1..TrendDays(timeframe) |->
     LET dayArticles == DayArticles(docs, timeframe, k - 1)
     IN IF type = "sentiment"
          THEN [date |-> k - 1, value |-> MeanScore(dayArticles),
                sentiment |-> MeanScore(dayArticles), count |-> Len(dayArticles)]
          ELSE [date |-> k - 1, value |-> Len(dayArticles),
                count |-> Len(dayArticles)]]

\* generateDashboardMetrics(timeframe, limit)
GenerateDashboardMetrics ==
  /\ dash.pc = "called"
  /\ LET arts == FindWindow(dash.docs, dash.timeframe, dash.limit)
     IN dash' = [dash EXCEPT
          !.pc = "returned",
          !.result =
             [totalArticles |-> Len(arts),
              averageSentiment |-> MeanScore(arts),
              sentimentDistribution |-> SentimentDistribution(arts),
              topKeywords |-> Top(Tally(<<>>, KeywordPairs(arts))),
              topSources |-> Top(Tally(<<>>, SourcePairs(arts))),
              sentimentTrend |->
                 GenerateSimpleTrend(dash.docs, dash.timeframe, "sentiment"),
              volumeTrend |->
                 GenerateSimpleTrend(dash.docs, dash.timeframe, "volume")]]
  /\ UNCHANGED <<analytics, cacheRun, cacheEnv, web, restVars, alertVars, enrich, rateVars, ingestVars>>

Doc(age, score, label, keywords, source) ==
  [age |-> age, score |-> score, label |-> label, keywords |-> keywords,
   source |-> source]

\* stored articles: in the future, inside and at the edge of the 24 h window,
\* and inside only the 30, 90 and 365 day windows, and older than all
DashUniverse ==
  {Doc(-5, 5, "positive", <<"ai">>, "bbc"),
   Doc(3, -4, "negative", <<"ai", "tech">>, "bbc"),
   Doc(24, 0, "neutral", <<>>, "cnn"),
   Doc(30, 9, "positive", <<"tech", "ai">>, "cnn"),
   Doc(800, -10, "negative", <<"oil">>, "bbc"),
   Doc(8700, 2, "neutral", <<"oil">>, "npr"),
   Doc(9000, 7, "positive", <<"ai">>, "npr")}

InitDash ==
  /\ \E docs \in {S \in SUBSET DashUniverse : Cardinality(S) <= MaxDocs} :
     \E timeframe \in Timeframes : \E limit \in Limits :
       dash = [pc |-> "called", docs |-> docs, timeframe |-> timeframe,
               limit |-> limit, result |-> "none"]
  /\ CacheOff /\ WebOff /\ RestOff /\ AlertOff /\ EnrichOff /\ RateOff /\ IngestOff

NextDash == GenerateDashboardMetrics

SpecDash == InitDash /\ [][NextDash]_vars

(***************************************************************************)
(* Snapshot caching: generateAndCacheAnalytics in analytics-complex.ts     *)
(* Time is in hours since an instant at which an hour, a day, a week and   *)
(* a month start together; a month is taken as 30 days.                    *)
(***************************************************************************)
CacheTimeframes == <<"hour", "day", "week", "month">>
CacheStarts == {0, 23, 167, 719}
ComplexLimit == 100

\* startOfHour / startOfDay / startOfWeek / startOfMonth
BucketStart(timeframe, now) ==
  CASE timeframe = "hour" -> now
    [] timeframe = "day" -> now - (now % 24)
    [] timeframe = "week" -> now - (now % 168)
    [] OTHER -> now - (now % 720)

\* variant that looks the snapshot up by its date alone
ExistingAnalyticsByDate(store, date, timeframe) ==
  \E i \in DOMAIN store : store[i].date = date

\* Analytics.findOne({ date: dateToCache, timeframe }) finds a document
ExistingAnalytics(store, date, timeframe) ==
  \E i \in DOMAIN store : store[i].date = date /\ store[i].timeframe = timeframe

\* x || 0 on a number
OrZero(v) == IF v.t = "nan" \/ (v.t = "number" /\ v.num = 0) THEN Zero ELSE v

\* the overview of generateDashboardMetrics of analytics-complex.ts; a
\* tallied count is at least 1, so sentiment / count is what Top computes
OverviewComplex(docs, timeframe) ==
  LET arts == FindWindow(docs, timeframe, ComplexLimit)
  IN [totalArticles |-> Len(arts),
      averageSentiment |-> OrZero(Divide(ScoreSum(arts), Len(arts))),
      sentimentDistribution |-> SentimentDistribution(arts),
      topKeywords |-> Top(Tally(<<>>, KeywordPairs(arts))),
      topSources |-> Top(Tally(<<>>, SourcePairs(arts)))]

\* new Analytics({ date, timeframe, metrics })
NewAnalytics(date, timeframe, overview) ==
  [date |-> date, timeframe |-> timeframe, metrics |-> overview]

\* the loop over the timeframes moves on; after the last one the call returns
NextTimeframe(rec) ==
  IF rec.idx = Len(CacheTimeframes)
    THEN [rec EXCEPT !.pc = "idle", !.calls = @ + 1]
    ELSE [rec EXCEPT !.pc = "find", !.idx = @ + 1]

\* a storage operation may fail while faults are left
CacheFaults == IF cacheEnv.faultsLeft > 0 THEN {FALSE, TRUE} ELSE {FALSE}

Caught(rec) ==
  NextTimeframe([rec EXCEPT
    !.failed[rec.calls + 1] = @ \cup {CacheTimeframes[rec.idx]}])

\* generateAndCacheAnalytics is called
StartCaching(c) ==
  /\ cacheRun[c].pc = "idle"
  /\ cacheRun[c].calls < cacheEnv.maxCalls
  /\ cacheRun' = [cacheRun EXCEPT ![c] =
        [@ EXCEPT !.pc = "find", !.idx = 1,
                  !.dates = Append(@, [t \in {} |-> 0]),
                  !.wrote = Append(@, {}),
                  !.failed = Append(@, {})]]
  /\ UNCHANGED <<analytics, cacheEnv, dash, web, restVars, alertVars, enrich, rateVars, ingestVars>>

\* now = new Date(); dateToCache; existingAnalytics = await Analytics.findOne
FindExistingAnalytics(c) ==
  /\ cacheRun[c].pc = "find"
  /\ LET timeframe == CacheTimeframes[cacheRun[c].idx]
         dateToCache == BucketStart(timeframe, cacheEnv.now)
         rec == [cacheRun[c] EXCEPT
                   !.dateToCache = dateToCache,
                   !.dates[cacheRun[c].calls + 1] =
                      [t \in DOMAIN @ \cup {timeframe} |->
                         IF t = timeframe THEN dateToCache ELSE @[t]]]
     IN \E fails \in CacheFaults :
          /\ cacheRun' = [cacheRun EXCEPT ![c] =
                IF fails THEN Caught(rec)
                ELSE IF ExistingAnalytics(analytics, dateToCache, timeframe)
                  THEN NextTimeframe(rec)
                  ELSE [rec EXCEPT !.pc = "generate"]]
          /\ cacheEnv' = IF fails THEN [cacheEnv EXCEPT !.faultsLeft = @ - 1]
                         ELSE cacheEnv
  /\ UNCHANGED <<analytics, dash, web, restVars, alertVars, enrich, rateVars, ingestVars>>

\* metrics = await this.generateDashboardMetrics(timeframe)
GenerateMetrics(c) ==
  /\ cacheRun[c].pc = "generate"
  /\ \E fails \in CacheFaults :
       /\ cacheRun' = [cacheRun EXCEPT ![c] =
             IF fails THEN Caught(@)
             ELSE [@ EXCEPT !.pc = "save",
                            !.metrics = OverviewComplex(cacheEnv.docs,
                                           CacheTimeframes[cacheRun[c].idx])]]
       /\ cacheEnv' = IF fails THEN [cacheEnv EXCEPT !.faultsLeft = @ - 1]
                      ELSE cacheEnv
  /\ UNCHANGED <<analytics, dash, web, restVars, alertVars, enrich, rateVars, ingestVars>>

\* await analytics.save(): no index of the collection is unique
SaveAnalytics(c) ==
  /\ cacheRun[c].pc = "save"
  /\ LET timeframe == CacheTimeframes[cacheRun[c].idx]
     IN \E fails \in CacheFaults :
          /\ analytics' = IF fails THEN analytics
                ELSE Append(analytics,
                       NewAnalytics(cacheRun[c].dateToCache, timeframe,
                                    cacheRun[c].metrics))
          /\ cacheRun' = [cacheRun EXCEPT ![c] =
                IF fails THEN Caught(@)
                ELSE NextTimeframe([@ EXCEPT
                       !.wrote[cacheRun[c].calls + 1] = @ \cup {timeframe}])]
          /\ cacheEnv' = IF fails THEN [cacheEnv EXCEPT !.faultsLeft = @ - 1]
                         ELSE cacheEnv
  /\ UNCHANGED <<dash, web, restVars, alertVars, enrich, rateVars, ingestVars>>

\* an hour passes
CacheTick ==
  /\ cacheEnv.ticksLeft > 0
  /\ cacheEnv' = [cacheEnv EXCEPT !.now = @ + 1, !.ticksLeft = @ - 1]
  /\ UNCHANGED <<analytics, cacheRun, dash, web, restVars, alertVars, enrich, rateVars, ingestVars>>

NextCache ==
  \/ \E c \in CacheCallers : StartCaching(c)
  \/ \E c \in CacheCallers : FindExistingAnalytics(c)
  \/ \E c \in CacheCallers : GenerateMetrics(c)
  \/ \E c \in CacheCallers : SaveAnalytics(c)
  \/ CacheTick

CacheRunIdle == [CacheRunOff EXCEPT !.pc = "idle"]

CacheDocs ==
  {{}, {Doc(3, -4, "negative", <<"ai", "tech">>, "bbc"),
        Doc(30, 9, "positive", <<"tech", "ai">>, "cnn")}}

\* one caller invoking the operation twice in succession
InitCache ==
  /\ analytics = <<>>
  /\ cacheRun = [c \in CacheCallers |->
                   IF c = "first" THEN CacheRunIdle ELSE CacheRunOff]
  /\ \E now \in CacheStarts : \E docs \in CacheDocs :
     \E f \in 0..1 : \E ticks \in 0..MaxCacheTicks :
       cacheEnv = [now |-> now, docs |-> docs, faultsLeft |-> f, maxCalls |-> 2,
                   ticksLeft |-> ticks]
  /\ DashOff /\ WebOff /\ RestOff /\ AlertOff /\ EnrichOff /\ RateOff /\ IngestOff

SpecCache == InitCache /\ [][NextCache]_vars

\* two callers invoking the operation concurrently, once each
InitCacheRace ==
  /\ analytics = <<>>
  /\ cacheRun = [c \in CacheCallers |-> CacheRunIdle]
  /\ \E now \in CacheStarts : \E f \in 0..1 : \E ticks \in 0..1 :
       cacheEnv = [now |-> now, docs |-> {}, faultsLeft |-> f, maxCalls |-> 1,
                   ticksLeft |-> ticks]
  /\ DashOff /\ WebOff /\ RestOff /\ AlertOff /\ EnrichOff /\ RateOff /\ IngestOff

SpecCacheRace == InitCacheRace /\ [][NextCache]_vars

(***************************************************************************)
(* extractFullContent of scraper.ts on a fetched page                      *)
(* A paragraph is its position in the document and the length of its       *)
(* trimmed text; a text made of paragraphs is the sequence of them, joined *)
(* by one newline each.                                                    *)
(***************************************************************************)
\* everything but `call`
callRest == <<alertVars, enrich, rateVars, ingestVars, dash, analytics,
              cacheRun, cacheEnv, web, sched, systemLogs, cached>>

CallRestOff ==
  /\ AlertOff /\ EnrichOff /\ RateOff /\ IngestOff
  /\ DashOff /\ CacheOff /\ WebOff /\ SchedOff /\ LogsOff /\ ConnOff

contentSelectors ==
  <<"[data-module=\"ArticleBody\"] p", ".article-body p", ".story-body p",
    ".post-content p", ".entry-content p", ".article-content p",
    ".content p", "article p", "main p", ".text p">>

\* $(selector): the paragraphs of the page the selector matches, in
\* document order
Elements(page, selector) ==
  SelectSeq([i \in DOMAIN page.paras |-> [at |-> i, len |-> page.paras[i]]],
            LAMBDA p : p.at \in page.match[selector])

\* $('p'): every paragraph of the page
AllParagraphs(page) ==
  [i \in DOMAIN page.paras |-> [at |-> i, len |-> page.paras[i]]]

\* .filter(text => text.length > 20)
Kept(ps) == SelectSeq(ps, LAMBDA p : p.len > 20)

\* the length of ps.join('\n')
TextLength(ps) ==
  IF ps = <<>> THEN 0
  ELSE SumOver([i \in DOMAIN ps |-> ps[i].len], DOMAIN ps) + Len(ps) - 1

\* the for loop over contentSelectors from the i-th selector on, `content`
\* being what the selectors before left
RECURSIVE SelectorLoop(_, _, _)
SelectorLoop(page, i, content) ==
  IF i > Len(contentSelectors) THEN content
  ELSE LET elements == Elements(page, contentSelectors[i])
       IN IF Len(elements) >= 2
            THEN LET kept == Kept(elements)
                 IN IF TextLength(kept) > 100 THEN kept
                    ELSE SelectorLoop(page, i + 1, kept)
          ELSE SelectorLoop(page, i + 1, content)

\* extractFullContent(url) when the server answers with `page`; a failed
\* request is caught and gives the empty text
ExtractFullContent(page) ==
  IF ~page.fetched THEN <<>>
  ELSE LET content == SelectorLoop(page, 1, <<>>)
       IN IF content = <<>> \/ TextLength(content) < 100
            THEN LET kept == Kept(AllParagraphs(page))
                 IN SubSeq(kept, 1, Min(10, Len(kept)))
          ELSE content

\* lengths of the paragraphs of a page: 49 + 1 + 50 = 100
ParaLens == {10, 49, 50, 60}

\* the two selectors the pages of the universe have matches for
PageSelectors == {".article-body p", "article p"}

\* a page of up to MaxParagraphs paragraphs of the lengths of ParaLens,
\* each of the two selectors matching any of them
MixedPages ==
  UNION {[fetched : BOOLEAN,
          paras : [1..n -> ParaLens],
          match : {[s \in {contentSelectors[i] : i \in DOMAIN contentSelectors}
                      |-> IF s = ".article-body p" THEN a
                          ELSE IF s = "article p" THEN b ELSE {}]
                     : a \in SUBSET (1..n), b \in SUBSET (1..n)}]
           : n \in 0..MaxParagraphs}

\* a page of n paragraphs of 30 characters no content selector matches
LongPages ==
  {[fetched |-> TRUE, paras |-> [i \in 1..n |-> 30],
    match |-> [s \in {contentSelectors[i] : i \in DOMAIN contentSelectors}
                 |-> {}]]
     : n \in 0..MaxLongPage}

ExtractCall ==
  /\ call.pc = "extract"
  /\ call' = [call EXCEPT !.pc = "extracted",
                          !.returned = ExtractFullContent(call.page)]
  /\ UNCHANGED callRest

NextExtract == ExtractCall

InitExtract ==
  /\ \E page \in MixedPages \cup LongPages :
       call = [pc |-> "extract", page |-> page, returned |-> <<>>]
  /\ CallRestOff

SpecExtract == InitExtract /\ [][NextExtract]_vars

(***************************************************************************)
(* The request of scrapeNewsAPI(query, sources, category)                  *)
(* URLSearchParams is a list of name / value pairs; the clock is in hours  *)
(* and a date string (toISOString().split('T')[0]) is the number of its    *)
(* UTC day.                                                                *)
(***************************************************************************)
\* params.append(name, value)
ParamsAppend(params, name, value) ==
  Append(params, [name |-> name, value |-> value])

\* params.delete(name)
ParamsDelete(params, name) == SelectSeq(params, LAMBDA p : p.name # name)

\* variant of the request that keeps country when sources are given
NewsApiRequestKeepsCountry(apiKey, query, sources, category, now) ==
  LET base == <<[name |-> "apiKey", value |-> Str(apiKey)],
                [name |-> "language", value |-> Str("en")],
                [name |-> "pageSize", value |-> Str("50")]>>
      moded == IF Truthy(query)
                 THEN ParamsAppend(ParamsAppend(ParamsAppend(base,
                        "q", query), "sortBy", Str("publishedAt")),
                        "from", Num((now - 24) \div 24))
               ELSE ParamsAppend(base, "country", Str("us"))
      sourced == IF Truthy(sources) /\ ~Truthy(query)
                   THEN ParamsAppend(moded, "sources", sources)
                 ELSE moded
  IN [endpoint |-> IF Truthy(query) THEN "https://newsapi.org/v2/everything"
                   ELSE "https://newsapi.org/v2/top-headlines",
      params |-> IF Truthy(category) /\ ~Truthy(sources) /\ ~Truthy(query)
                   THEN ParamsAppend(sourced, "category", category)
                 ELSE sourced]

\* the endpoint and the parameters of the axios.get of scrapeNewsAPI
NewsApiRequest(apiKey, query, sources, category, now) ==
  LET base == <<[name |-> "apiKey", value |-> Str(apiKey)],
                [name |-> "language", value |-> Str("en")],
                [name |-> "pageSize", value |-> Str("50")]>>
      moded == IF Truthy(query)
                 THEN ParamsAppend(ParamsAppend(ParamsAppend(base,
                        "q", query), "sortBy", Str("publishedAt")),
                        "from", Num((now - 24) \div 24))
               ELSE ParamsAppend(base, "country", Str("us"))
      sourced == IF Truthy(sources) /\ ~Truthy(query)
                   THEN ParamsAppend(ParamsDelete(moded, "country"),
                                     "sources", sources)
                 ELSE moded
  IN [endpoint |-> IF Truthy(query) THEN "https://newsapi.org/v2/everything"
                   ELSE "https://newsapi.org/v2/top-headlines",
      params |-> IF Truthy(category) /\ ~Truthy(sources) /\ ~Truthy(query)
                   THEN ParamsAppend(sourced, "category", category)
                 ELSE sourced]

\* scrapeNewsAPI up to its axios.get: nothing is requested without a key
NewsApiCall ==
  /\ call.pc = "newsapi"
  /\ call' = IF call.apiKey = "" THEN [call EXCEPT !.pc = "no key"]
             ELSE [call EXCEPT !.pc = "requested",
                               !.request = NewsApiRequest(call.apiKey,
                                              call.query, call.sources,
                                              call.category, call.now)]
  /\ UNCHANGED callRest

NextNewsApiRequest == NewsApiCall

\* every argument absent, empty or given, with and without a key, at every
\* hour of a day and an hour
InitNewsApiRequest ==
  /\ \E query \in {Undefined, Str(""), Str("ai")} :
     \E sources \in {Undefined, Str(""), Str("bbc-news")} :
     \E category \in {Undefined, Str(""), Str("business")} :
     \E apiKey \in {"", "k"} : \E h \in 0..MaxNowHours :
       call = [pc |-> "newsapi", apiKey |-> apiKey, query |-> query,
               sources |-> sources, category |-> category, now |-> 24 + h,
               request |-> [endpoint |-> "", params |-> <<>>]]
  /\ CallRestOff

SpecNewsApiRequest == InitNewsApiRequest /\ [][NextNewsApiRequest]_vars

(***************************************************************************)
(* scrapeRSSFeeds over several active sources                              *)
(* An item of a feed is "new", "known" (its urlHash is stored already) or  *)
(* "bad" (no link or no title).                                            *)
(***************************************************************************)
SourceNames == [i \in 1..NSources |-> i]

\* the items of the feed pushed by the inner loop when it handles the
\* first n of them
Pushed(name, items, n) ==
  SelectSeq([i \in 1..n |-> [source |-> name, item |-> i, kind |-> items[i]]],
            LAMBDA a : a.kind = "new")

\* one iteration of the loop over the sources: the try block ends at
\* `failsAt` ("none", "fetch" for rateLimit / parseURL, "find" for
\* Article.findOne at item n, "save" for source.save()), and the save of
\* the catch block fails or not.  An error of the catch block leaves the
\* function.
ScrapeRssSource ==
  /\ call.pc = "rss"
  /\ call.index <= NSources
  /\ LET name == SourceNames[call.index]
         items == call.feeds[name]
         stored == call.stored[name]
     IN \E failsAt \in {"none", "fetch", "find", "save"} :
        \E n \in 1..Len(items) \cup {0} :
        \E catchSaveFails \in BOOLEAN :
          /\ failsAt = "fetch" => call.upstream = "flaky" /\ n = 0
          /\ failsAt = "find" => n > 0 /\ items[n] # "bad"
          /\ failsAt \in {"none", "save"} => n = Len(items)
          /\ failsAt = "none" => ~catchSaveFails
          /\ (IF failsAt \in {"find", "save"} THEN 1 ELSE 0)
               + (IF catchSaveFails THEN 1 ELSE 0) <= call.faultsLeft
          /\ LET collected ==
                   call.articles \o
                     Pushed(name, items, IF failsAt = "find" THEN n - 1 ELSE n)
                 faults == (IF failsAt \in {"find", "save"} THEN 1 ELSE 0)
                             + (IF catchSaveFails THEN 1 ELSE 0)
                 after == [call EXCEPT !.fetched = @ \cup {name},
                                       !.articles = collected,
                                       !.faultsLeft = @ - faults,
                                       !.failed = IF failsAt = "none" THEN @
                                                  ELSE @ \cup {name}]
             IN call' =
                  IF failsAt = "none"
                    THEN [after EXCEPT !.index = @ + 1,
                            !.stored[name] =
                               Persist(stored, SourceSucceeded(stored, 1),
                                       {"lastFetched", "lastSuccessful",
                                        "errorCount"})]
                  ELSE IF catchSaveFails
                    THEN [after EXCEPT !.pc = "rss threw"]
                  ELSE [after EXCEPT !.index = @ + 1,
                          !.stored[name] =
                             Persist(stored, SourceFailed(stored, 1),
                                     {"lastFetched", "errorCount", "lastError"})]
  /\ UNCHANGED callRest

\* return articles
ScrapeRssReturn ==
  /\ call.pc = "rss"
  /\ call.index > NSources
  /\ call' = [call EXCEPT !.pc = "rss returned", !.returned = call.articles]
  /\ UNCHANGED callRest

NextRssSources ==
  \/ ScrapeRssSource
  \/ ScrapeRssReturn

\* RSSSource.find({ isActive: true }) gave NSources sources; each feed has
\* up to MaxSourceItems items
InitRssSources ==
  /\ \E feedOf \in [1..NSources ->
                      UNION {[1..k -> {"new", "known", "bad"}]
                               : k \in 0..MaxSourceItems}] :
     \E upstream \in {"up", "flaky"} : \E faultsLeft \in 0..MaxFaults :
       call = [pc |-> "rss", index |-> 1, feeds |-> feedOf,
               stored |-> [i \in 1..NSources |-> RssSourceDoc(TRUE)],
               upstream |-> upstream, faultsLeft |-> faultsLeft,
               fetched |-> {}, failed |-> {}, articles |-> <<>>,
               returned |-> <<>>]
  /\ CallRestOff

SpecRssSources == InitRssSources /\ [][NextRssSources]_vars

(***************************************************************************)
(* publishedAt of the article an adapter produces from an upstream date    *)
(* A Date is valid with a time value, in hours, or invalid.                *)
(***************************************************************************)
DateAt(time) == [valid |-> TRUE, time |-> time]
InvalidDate == [valid |-> FALSE, time |-> 0]

\* Date.parse on the date strings of the model
DateParse(str) ==
  CASE str = "2024-05-01T10:00:00Z" -> DateAt(10)
    [] str = "Wed, 01 May 2024 12:00:00 GMT" -> DateAt(12)
    [] OTHER -> InvalidDate

\* new Date(value)
NewDate(v) ==
  CASE v.t = "string" -> DateParse(v.s)
    [] v.t = "number" -> DateAt(v.n)
    [] v.t = "null" -> DateAt(0)
    [] OTHER -> InvalidDate

\* parseDate of webScraper.ts
ParseDate(dateString, now) ==
  LET date == NewDate(dateString)
  IN IF date.valid THEN date ELSE DateAt(now)

\* publishedAt as each adapter computes it: from item.pubDate and
\* item.isoDate (rss), item.publishedAt (newsapi), item.webPublicationDate
\* (guardian), the datetime attribute and the text of the date element (web)
PublishedAt(adapter, first, second, now) ==
  CASE adapter = "rss" -> NewDate(JsOr(JsOr(first, second), Num(now)))
    [] adapter = "web" ->
         IF Truthy(JsOr(first, second)) THEN ParseDate(JsOr(first, second), now)
         ELSE DateAt(now)
    [] OTHER -> NewDate(first)

\* the adapter builds the article of an item
AdapterDate ==
  /\ call.pc = "date"
  /\ call' = [call EXCEPT !.pc = "dated",
                          !.publishedAt = PublishedAt(call.adapter, call.first,
                                                      call.second, call.now)]
  /\ UNCHANGED callRest

NextAdapterDate == AdapterDate

\* the upstream dates: two formats that parse, text that does not, the
\* empty string, a missing field, null
UpstreamDates ==
  {Str("2024-05-01T10:00:00Z"), Str("Wed, 01 May 2024 12:00:00 GMT"),
   Str("yesterday"), Str(""), Undefined, Null}

InitAdapterDate ==
  /\ \E adapter \in {"rss", "newsapi", "guardian", "web"} :
     \E first \in UpstreamDates : \E second \in UpstreamDates :
     \E now \in 20..(20 + MaxDateHours) :
       /\ adapter \in {"newsapi", "guardian"} => second = Undefined
       /\ adapter = "web" => first.t # "null" /\ second.t = "string"
       /\ call = [pc |-> "date", adapter |-> adapter, first |-> first,
                  second |-> second, now |-> now, publishedAt |-> InvalidDate]
  /\ CallRestOff

SpecAdapterDate == InitAdapterDate /\ [][NextAdapterDate]_vars

(***************************************************************************)
(* The in-memory system log: systemLogger.ts                               *)
(* An entry is the number of its append (its timestamp) and its level.     *)
(***************************************************************************)
MAX_LOGS == 1000

LogLevels == {"info", "warning", "error", "success"}

\* systemLogs.unshift(log), then slice(0, MAX_LOGS) when longer
UnshiftedAndCut(logs, log) ==
  LET all == <<log>> \o logs
  IN IF Len(all) > MAX_LOGS THEN SubSeq(all, 1, MAX_LOGS) ELSE all

\* array.slice(0, end)
SliceTo(s, end) ==
  IF end >= 0 THEN SubSeq(s, 1, Min(end, Len(s)))
  ELSE SubSeq(s, 1, IF Len(s) + end > 0 THEN Len(s) + end ELSE 0)

\* addSystemLog(level, message, details)
AddSystemLog(level) ==
  /\ systemLogs.pc = "on"
  /\ systemLogs.appended < systemLogs.start + MaxAppends
  /\ systemLogs' =
       [systemLogs EXCEPT
          !.logs = UnshiftedAndCut(@, [n |-> systemLogs.appended + 1,
                                       level |-> level]),
          !.appended = @ + 1,
          !.last = "addSystemLog"]
  /\ UNCHANGED <<alertVars, enrich, rateVars, ingestVars, dash, analytics,
                 cacheRun, cacheEnv, web, sched, cached, call>>

\* getSystemLogs(limit, level)
GetSystemLogs(limit, level) ==
  /\ systemLogs.pc = "on"
  /\ LET filteredLogs ==
           IF Truthy(level) /\ level.t = "string" /\ level.s \in LogLevels
             THEN SelectSeq(systemLogs.logs, LAMBDA log : log.level = level.s)
           ELSE systemLogs.logs
     IN systemLogs' =
          [systemLogs EXCEPT
             !.returned = IF Truthy(limit) THEN SliceTo(filteredLogs, limit.n)
                          ELSE filteredLogs,
             !.limit = limit, !.level = level,
             !.last = "getSystemLogs"]
  /\ UNCHANGED <<alertVars, enrich, rateVars, ingestVars, dash, analytics,
                 cacheRun, cacheEnv, web, sched, cached, call>>

\* the levels the callers of the module and POST /api/system-logs append
AppendedLevels == {"info", "error", "debug"}

\* the limits and levels GET /api/system-logs passes on
AskedLimits == {Undefined, Num(0 - 1), Num(0), Num(2)}
AskedLevels == {Undefined, Str("error"), Str("debug")}

NextSystemLogs ==
  \/ \E level \in AppendedLevels : AddSystemLog(level)
  \/ \E limit \in AskedLimits : \E level \in AskedLevels :
       GetSystemLogs(limit, level)

\* the buffer after n appends, the first one the startup log of the module
LogsAfter(n) ==
  [i \in 1..Min(n, MAX_LOGS) |->
     [n |-> n + 1 - i,
      level |-> IF (n + 1 - i) % 3 = 1 THEN "info"
                ELSE IF (n + 1 - i) % 3 = 2 THEN "error" ELSE "success"]]

\* the module after its startup log, or after enough appends to be nearly
\* or exactly full
InitSystemLogs ==
  /\ \E n \in {1, 2, MAX_LOGS - 1, MAX_LOGS} :
       systemLogs = [pc |-> "on", logs |-> LogsAfter(n), start |-> n,
                     appended |-> n, returned |-> <<>>, limit |-> Undefined,
                     level |-> Undefined, last |-> "none"]
  /\ AlertOff /\ EnrichOff /\ RateOff /\ IngestOff
  /\ DashOff /\ CacheOff /\ WebOff /\ SchedOff /\ ConnOff /\ CallOff

SpecSystemLogs == InitSystemLogs /\ [][NextSystemLogs]_vars

(***************************************************************************)
(* connectDB and its cached connection: database.ts                        *)
(* connectDB runs on the event loop of one process.  A call runs without   *)
(* interruption up to its await; the reactions of an awaited promise are   *)
(* microtasks, run in the order they were queued; new requests and the     *)
(* outcome of mongoose.connect arrive as tasks, when no microtask is left. *)
(* A connection and a promise are named by the number of the attempt that  *)
(* made them; 0 is null.                                                   *)
(***************************************************************************)
\* connectDB from its entry to its await, or to its return of cached.conn
Enter(s, c) ==
  LET called == [s EXCEPT !.callers[c].calls = @ + 1]
  IN IF s.conn # 0
       THEN [called EXCEPT !.callers[c].pc = "returned",
                           !.callers[c].got = s.conn]
     ELSE LET fresh == s.promise = 0
              id == IF fresh THEN Len(s.attempts) + 1 ELSE s.promise
              started == IF fresh
                           THEN [called EXCEPT !.attempts = Append(@, "pending"),
                                               !.promise = id,
                                               !.waiting = Append(@, <<>>)]
                         ELSE called
          IN IF started.attempts[id] = "pending"
               THEN [started EXCEPT !.callers[c].pc = "awaiting",
                                    !.callers[c].attempt = id,
                                    !.waiting[id] = Append(@, c)]
             ELSE [started EXCEPT !.callers[c].pc = "awaiting",
                                  !.callers[c].attempt = id,
                                  !.queue = Append(@, [kind |-> "reaction",
                                                       caller |-> c])]

\* variant of the catch block that leaves cached.promise as it is
RethrowKeepsPromise(s, c) ==
  [s EXCEPT !.callers[c].pc = "threw",
            !.callers[c].raised = @ \cup {s.callers[c].attempt}]

\* catch (e) { cached.promise = null; throw e; }
ClearAndRethrow(s, c) ==
  [s EXCEPT !.promise = 0,
            !.callers[c].pc = "threw",
            !.callers[c].raised = @ \cup {s.callers[c].attempt}]

\* a request calls connectDB
ConnectDB(c) ==
  /\ cached.pc = "on"
  /\ cached.queue = <<>>
  /\ cached.callers[c].pc # "awaiting"
  /\ cached.callers[c].calls < MaxConnCalls
  /\ cached.conn = 0 /\ cached.promise = 0 => Len(cached.attempts) < MaxAttempts
  /\ cached' = Enter(cached, c)
  /\ UNCHANGED <<alertVars, enrich, rateVars, ingestVars, dash, analytics,
                 cacheRun, cacheEnv, web, sched, systemLogs, call>>

\* mongoose.connect settles: the reactions of the calls that await it are
\* queued in the order of their awaits
Settle(outcome) ==
  /\ cached.pc = "on"
  /\ cached.queue = <<>>
  /\ \E id \in DOMAIN cached.attempts :
       /\ cached.attempts[id] = "pending"
       /\ cached' = [cached EXCEPT
            !.attempts[id] = outcome,
            !.queue = [i \in DOMAIN cached.waiting[id] |->
                         [kind |-> "reaction", caller |-> cached.waiting[id][i]]],
            !.waiting[id] = <<>>]
  /\ UNCHANGED <<alertVars, enrich, rateVars, ingestVars, dash, analytics,
                 cacheRun, cacheEnv, web, sched, systemLogs, call>>

\* the first microtask runs: connectDB goes on after its await, returning
\* the connection or rethrowing; or the caller that got the error calls
\* connectDB again
Microtask ==
  /\ cached.pc = "on"
  /\ cached.queue # <<>>
  /\ LET task == Head(cached.queue)
         c == task.caller
         rest == [cached EXCEPT !.queue = Tail(@)]
     IN IF task.kind = "retry" THEN cached' = Enter(rest, c)
        ELSE IF cached.attempts[cached.callers[c].attempt] = "resolved"
          THEN cached' = [rest EXCEPT !.conn = cached.callers[c].attempt,
                                      !.callers[c].pc = "returned",
                                      !.callers[c].got = cached.callers[c].attempt]
        ELSE \E again \in BOOLEAN :
               /\ again => /\ cached.callers[c].calls < MaxConnCalls
                           /\ Len(cached.attempts) < MaxAttempts
               /\ cached' = IF again
                              THEN [ClearAndRethrow(rest, c) EXCEPT
                                      !.queue = Append(@, [kind |-> "retry",
                                                           caller |-> c])]
                            ELSE ClearAndRethrow(rest, c)
  /\ UNCHANGED <<alertVars, enrich, rateVars, ingestVars, dash, analytics,
                 cacheRun, cacheEnv, web, sched, systemLogs, call>>

NextConnect ==
  \/ \E c \in 1..NConnCallers : ConnectDB(c)
  \/ \E outcome \in {"resolved", "rejected"} : Settle(outcome)
  \/ Microtask

\* the module as loaded: cached = { conn: null, promise: null }
InitConnect ==
  /\ cached = [pc |-> "on", conn |-> 0, promise |-> 0, attempts |-> <<>>,
               waiting |-> <<>>, queue |-> <<>>,
               callers |-> [c \in 1..NConnCallers |->
                              [pc |-> "idle", attempt |-> 0, got |-> 0,
                               calls |-> 0, raised |-> {}]]]
  /\ AlertOff /\ EnrichOff /\ RateOff /\ IngestOff
  /\ DashOff /\ CacheOff /\ WebOff /\ SchedOff /\ LogsOff /\ CallOff

SpecConnect == InitConnect /\ [][NextConnect]_vars

(***************************************************************************)
(* Properties of the enrichment client                                     *)
(***************************************************************************)
\* C5: for every provider outcome analyzeSentiment returns a score in [-1,1],
\* a confidence in [0,1] and a label among positive, negative, neutral.
C5_SentimentInRange ==
  (enrich.pc = "returned" /\ enrich.op = "sentiment") =>
     /\ enrich.result.score.t = "number"
     /\ enrich.result.score.n >= -Scale /\ enrich.result.score.n <= Scale
     /\ enrich.result.confidence.t = "number"
     /\ enrich.result.confidence.n >= 0 /\ enrich.result.confidence.n <= Scale
     /\ enrich.result.label \in {"positive", "negative", "neutral"}

\* C7: any two requests sent to the provider are at least 100 ms apart.
C7_MinSpacingBetweenRequests ==
  \A i \in 1..Len(sentAt) : \A j \in 1..Len(sentAt) :
     i < j => sentAt[j] - sentAt[i] >= MinSpacing

(***************************************************************************)
(* Properties of the ingestion cycle                                       *)
(***************************************************************************)
UniqueHashes == \A a \in articles : \A b \in articles : a.urlHash = b.urlHash => a = b

EnrichmentPcs == {"sentiment", "entities", "keywords", "readability"}

C2_RaceDiscardsDuplicate ==
  /\ [](UniqueHashes /\ \A r \in Runs : ~run[r].raised /\ run[r].pc # "raised")
  /\ [][\A r \in Runs :
          (/\ run[r].pc = "save"
           /\ run'[r] # run[r]
           /\ UniqueViolation(articles, NewArticle(CurrentRaw(run[r]), run[r].cur)))
          => /\ articles' = articles
             /\ run'[r].pos = run[r].pos + 1
             /\ run'[r].pc \in {"check", "idle"}
             /\ run'[r].discarded = run[r].discarded + 1]_vars

\* a run lost the write race, discarded its article and finished its cycle
C2_Witness ==
  \E r \in Runs : \E q \in Runs :
    /\ r # q
    /\ run[r].discarded > 0 /\ run[r].pc = "idle" /\ run[r].cycles = 1
    /\ run[q].pc = "idle" /\ run[q].cycles = 1
    /\ Cardinality(articles) = Len(feeds["rss"])

\* C3: once an Article with URL u is stored, every existence check of a raw
\* article with URL u (adapter pre-check, check of processAndSaveArticles)
\* reports a duplicate whatever the title or source, the raw article is
\* dropped, and no stored Article is ever changed or removed.
C3_SameUrlIsDuplicate ==
  [][/\ \A a \in articles : a \in articles'
     /\ \A a \in articles' : \A b \in articles' : a.url = b.url => a = b
     /\ \A r \in Runs :
          /\ (/\ run[r].pc = "adapter"
               /\ run'[r] # run[r]
               /\ run[r].item <= Len(feeds[AdapterOrder[run[r].adapter]])
               /\ \E a \in articles :
                    a.url = feeds[AdapterOrder[run[r].adapter]][run[r].item].url)
              => run'[r].all = run[r].all /\ run'[r].batch = run[r].batch
          /\ (/\ run[r].pc = "check"
               /\ run'[r] # run[r]
               /\ \E a \in articles : a.url = CurrentRaw(run[r]).url)
              => /\ run'[r].pc \notin EnrichmentPcs
                 /\ CurrentRaw(run[r]) \in run'[r].skipped
                 /\ articles' = articles]_vars

\* a raw article was dropped whose URL is stored with another title, from
\* another adapter
C3_Witness ==
  \E r \in Runs : \E raw \in run[r].skipped : \E a \in articles :
    a.url = raw.url /\ a.title # raw.title /\ a.source # raw.source

\* C4: an article is enriched only after the existence check found it absent,
\* and the save directly follows an existence check, with no enrichment call
\* in between.
C4_RecheckBeforeSave ==
  \A r \in Runs :
    /\ run[r].pc \in EnrichmentPcs \cup {"save"} =>
         CurrentRaw(run[r]) \notin run[r].skipped
    /\ run[r].pc = "save" => run[r].callsSinceCheck = 0

\* C6: no enrichment operation raises; after a transport error or an
\* unparseable reply the value handed to the Article, and stored on it, is the
\* fallback: sentiment 0 / 0.1 / neutral, no entities, no keywords or topics,
\* readability 50.
FailureKinds == {"transport_error", "unparseable"}

FallbackHeld(outcomes, sentiment, entities, keywords, readability) ==
  /\ outcomes["sentiment"] \in FailureKinds =>
       sentiment = [score |-> Num(0), confidence |-> Num(1), label |-> "neutral"]
  /\ outcomes["entities"] \in FailureKinds =>
       \A c \in {"person", "organization", "location", "technology", "other"} :
         entities[c] = 0
  /\ outcomes["keywords"] \in FailureKinds => keywords = 0
  /\ outcomes["readability"] \in FailureKinds => readability = 50

C6_FallbackOnFailure ==
  /\ \A r \in Runs : ~run[r].raised
  /\ \A a \in articles :
       FallbackHeld(a.outcomes, a.sentiment, a.entities, a.keywords, a.readability)
  /\ \A r \in Runs :
       run[r].pc = "save" =>
         /\ FallbackHeld(run[r].cur.outcomes, run[r].cur.sentiment,
                         run[r].cur.entities, run[r].cur.keywordData.keywords,
                         run[r].cur.readability)
         /\ run[r].cur.outcomes["keywords"] \in FailureKinds =>
              run[r].cur.keywordData.topics = 0

\* an Article was stored after all four operations failed
C6_Witness ==
  \E a \in articles :
    /\ a.outcomes["sentiment"] = "transport_error"
    /\ a.outcomes["entities"] = "unparseable"
    /\ a.outcomes["keywords"] = "transport_error"
    /\ a.outcomes["readability"] = "transport_error"
    /\ a.readability = 50
    /\ a.sentiment.confidence = Num(1)

(***************************************************************************)
(* Properties of the alert evaluator                                       *)
(***************************************************************************)
AlertsOf(type, keyword) ==
  SelectSeq(alerts, LAMBDA a : a.type = type /\ a.keyword = keyword)

\* the tracks of the running call whose evaluation completed without an error
EvaluatedTracks == {alertRun.trackedKeywords[i] : i \in alertRun.evaluated}

\* C8: for an evaluated active track with previousCount and recentCount
\* articles, exactly one volume_spike alert exists iff the change
\* (recentCount - previousCount) / previousCount * 100 (0 when previousCount
\* is 0) is >= the volumeSpike threshold; its severity is high when the
\* change is > 100 and medium otherwise.
C8_VolumeSpike ==
  \A t \in EvaluatedTracks :
    LET r == BagCount(found[t.keyword].recent)
        p == BagCount(found[t.keyword].previous)
        T == t.alertThreshold.volumeSpike
        meets == IF p > 0 THEN (r - p) * 100 >= T * p ELSE 0 >= T
        exceeds == p > 0 /\ (r - p) * 100 > 100 * p
        emitted == AlertsOf("volume_spike", t.keyword)
    IN /\ t.isActive
       /\ Len(emitted) = (IF meets THEN 1 ELSE 0)
       /\ meets => /\ emitted[1].severity = (IF exceeds THEN "high" ELSE "medium")
                    /\ emitted[1].change[2] > 0
                    /\ emitted[1].change[1] * (IF p > 0 THEN p ELSE 1)
                         = (IF p > 0 THEN (r - p) * 100 ELSE 0) * emitted[1].change[2]

\* previous 2, recent 5, threshold 50: change 150, one high alert
C8_Witness ==
  /\ alertRun.pc = "done"
  /\ \E t \in EvaluatedTracks :
       /\ BagCount(found[t.keyword].previous) = 2
       /\ BagCount(found[t.keyword].recent) = 5
       /\ t.alertThreshold.volumeSpike = 50
       /\ Len(AlertsOf("volume_spike", t.keyword)) = 1
       /\ AlertsOf("volume_spike", t.keyword)[1].severity = "high"
       /\ AlertsOf("volume_spike", t.keyword)[1].change = <<300, 2>>

\* C9: sentiment change is evaluated only when both periods hold an article;
\* then change = |mean recent - mean previous| * 100, one sentiment_change
\* alert exists iff change >= the sentimentChange threshold, with severity
\* high when change > 50 and medium otherwise; with an empty period there is
\* no sentiment_change alert.
C9_SentimentChange ==
  \A t \in EvaluatedTracks :
    LET nr == BagCount(found[t.keyword].recent)
        np == BagCount(found[t.keyword].previous)
        sr == BagScoreSum(found[t.keyword].recent)
        sp == BagScoreSum(found[t.keyword].previous)
        T == t.alertThreshold.sentimentChange
        \* |sr/(Scale*nr) - sp/(Scale*np)| * 100, times Scale*nr*np
        diff == Abs(sr * np - sp * nr) * 100
        meets == nr > 0 /\ np > 0 /\ diff >= T * Scale * nr * np
        exceeds == diff > 50 * Scale * nr * np
        emitted == AlertsOf("sentiment_change", t.keyword)
    IN /\ Len(emitted) = (IF meets THEN 1 ELSE 0)
       /\ (nr = 0 \/ np = 0) => Len(emitted) = 0
       /\ meets => /\ emitted[1].severity = (IF exceeds THEN "high" ELSE "medium")
                    /\ emitted[1].change[1] * Scale * nr * np
                         = diff * emitted[1].change[2]

\* means -0.2 and 0.1, threshold 20: change 30, one medium alert
C9_Witness ==
  /\ alertRun.pc = "done"
  /\ \E t \in EvaluatedTracks :
       /\ found[t.keyword].previous = [EmptyBag EXCEPT ![-2] = 1]
       /\ found[t.keyword].recent = [EmptyBag EXCEPT ![1] = 2]
       /\ t.alertThreshold.sentimentChange = 20
       /\ Len(AlertsOf("sentiment_change", t.keyword)) = 1
       /\ AlertsOf("sentiment_change", t.keyword)[1].severity = "medium"
       /\ AlertsOf("sentiment_change", t.keyword)[1].change[1] * 1
            = 30 * AlertsOf("sentiment_change", t.keyword)[1].change[2]

\* C10: a failure while one track is evaluated does not abort checkAlerts:
\* the call does not raise because of it, and when it returns every active
\* track has been attempted and every track that did not fail has its alerts.
C10_TrackFailureIsolated ==
  /\ alertRun.failed # {} => alertRun.pc # "raised" /\ ~alertRun.raised
  /\ alertRun.pc = "loop" =>
       alertRun.failed \cup alertRun.evaluated = 1..(alertRun.idx - 1)
  /\ alertRun.pc = "done" =>
       /\ alertRun.trackedKeywords = ActiveTracks(keywordTracks)
       /\ alertRun.failed \cup alertRun.evaluated
            = 1..Len(alertRun.trackedKeywords)
       /\ \A i \in alertRun.evaluated :
            LET t == alertRun.trackedKeywords[i]
            IN AlertsOf("volume_spike", t.keyword)
                 \o AlertsOf("sentiment_change", t.keyword)
               = EmittedAlerts(t, found[t.keyword].recent,
                               found[t.keyword].previous, "none")

\* the first track failed, a later one was evaluated and emitted an alert
C10_Witness ==
  /\ alertRun.pc = "done"
  /\ 1 \in alertRun.failed
  /\ \E i \in alertRun.evaluated :
       i > 1 /\ AlertsOf("volume_spike", alertRun.trackedKeywords[i].keyword) # <<>>

(***************************************************************************)
(* Properties of the dashboard metrics                                     *)
(***************************************************************************)
\* C11: when no stored article lies in the window of the timeframe,
\* generateDashboardMetrics returns totalArticles 0, averageSentiment 0, the
\* three label counts 0, empty topKeywords and topSources, and trend points
\* with mean sentiment 0 and volume 0; and no returned mean is the result of
\* a division by zero, whatever the timeframe.
C11_EmptyWindowMetrics ==
  dash.pc = "returned" =>
    LET hours == CASE dash.timeframe = "hour" -> 24
                   [] dash.timeframe = "week" -> 2160
                   [] dash.timeframe = "month" -> 8760
                   [] OTHER -> 720
        empty == ~\E a \in dash.docs : a.age >= 0 /\ a.age <= hours
        res == dash.result
        IsNumber(v) == v.t = "number" /\ v.den > 0
    IN /\ IsNumber(res.averageSentiment)
       /\ \A i \in DOMAIN res.sentimentTrend :
            IsNumber(res.sentimentTrend[i].value)
       /\ \A i \in DOMAIN res.topKeywords : IsNumber(res.topKeywords[i].sentiment)
       /\ \A i \in DOMAIN res.topSources : IsNumber(res.topSources[i].sentiment)
       /\ empty =>
            /\ res.totalArticles = 0
            /\ res.averageSentiment.num = 0
            /\ \A l \in {"positive", "negative", "neutral"} :
                 res.sentimentDistribution[l] = 0
            /\ res.topKeywords = <<>>
            /\ res.topSources = <<>>
            /\ \A i \in DOMAIN res.sentimentTrend :
                 /\ res.sentimentTrend[i].value.num = 0
                 /\ res.sentimentTrend[i].sentiment.num = 0
                 /\ res.sentimentTrend[i].count = 0
            /\ \A i \in DOMAIN res.volumeTrend :
                 res.volumeTrend[i].value = 0 /\ res.volumeTrend[i].count = 0

\* the store holds articles, all of them outside the 24 h window, and the
\* metrics of the hour timeframe were returned with their one trend point
C11_Witness ==
  /\ dash.pc = "returned"
  /\ dash.timeframe = "hour"
  /\ Cardinality(dash.docs) = 2
  /\ \A a \in dash.docs : a.age < 0 \/ a.age > 24
  /\ dash.result.totalArticles = 0
  /\ Len(dash.result.sentimentTrend) = 1
  /\ Len(dash.result.volumeTrend) = 1

(***************************************************************************)
(* Properties of the snapshot caching                                      *)
(***************************************************************************)
CountAnalytics(date, timeframe) ==
  Cardinality({i \in DOMAIN analytics :
                 analytics[i].date = date /\ analytics[i].timeframe = timeframe})

\* C12: after two calls of generateAndCacheAnalytics in succession, for each
\* timeframe whose bucket start was the same in both calls and whose handling
\* met no storage error, the store holds exactly one Analytics record for
\* that (date, timeframe): the first call saved it and the second call wrote
\* nothing; and a single caller never stores two records for one pair.
C12_CacheTwiceOneRecord ==
  LET rec == cacheRun["first"]
  IN /\ \A i \in DOMAIN analytics : \A j \in DOMAIN analytics :
          (analytics[i].date = analytics[j].date
             /\ analytics[i].timeframe = analytics[j].timeframe) => i = j
     /\ (rec.calls = 2 /\ rec.pc = "idle") =>
          \A timeframe \in {"hour", "day", "week", "month"} :
            (/\ rec.dates[1][timeframe] = rec.dates[2][timeframe]
             /\ timeframe \notin rec.failed[1] \cup rec.failed[2])
            => /\ CountAnalytics(rec.dates[1][timeframe], timeframe) = 1
               /\ timeframe \in rec.wrote[1]
               /\ timeframe \notin rec.wrote[2]

\* two calls inside the same hour, no storage error: four records, all of
\* them written by the first call
C12_Witness ==
  LET rec == cacheRun["first"]
  IN /\ rec.calls = 2 /\ rec.pc = "idle"
     /\ rec.failed = <<{}, {}>>
     /\ rec.dates[1] = rec.dates[2]
     /\ rec.wrote = <<{"hour", "day", "week", "month"}, {}>>
     /\ Len(analytics) = 4

\* C13: under every interleaving of concurrent callers the store holds at
\* most one Analytics record per (date, timeframe).
C13_OneSnapshotPerBucket ==
  \A date \in {analytics[i].date : i \in DOMAIN analytics} :
    \A timeframe \in {"hour", "day", "week", "month"} :
      CountAnalytics(date, timeframe) <= 1

(***************************************************************************)
(* Properties of the batch processing and of the adapters                  *)
(***************************************************************************)
ProcessingPcs == {"check"} \cup EnrichmentPcs \cup {"save"}

SkipFates == {"lookup_failed", "invalid", "failed", "duplicate"}

EnrichmentFailed(outcomes) ==
  \E op \in DOMAIN outcomes : outcomes[op] \in FailureKinds

\* the call of processAndSaveArticles does not raise, handles the articles of
\* the capped batch in order, and has handled all of them when it returns
BatchNeverAborted(rec) ==
  /\ ~rec.raised /\ rec.pc # "raised"
  /\ \A i \in DOMAIN rec.log : rec.log[i].pos = i /\ rec.log[i].url = rec.all[i].url
  /\ rec.pc \in ProcessingPcs => Len(rec.log) = rec.pos - 1
  /\ (rec.pc = "idle" /\ rec.cycles >= 1) =>
        Len(rec.log) = (IF Len(rec.all) <= 10 THEN Len(rec.all) ELSE 10)

\* C14 as stated: every error met while an article is processed, an error of
\* an enrichment step included, is caught and the article is skipped (not
\* saved); the later articles are processed and the call returns normally.
C14_ErrorSkipsArticle ==
  \A r \in Runs :
    /\ BatchNeverAborted(run[r])
    /\ \A i \in DOMAIN run[r].log :
         (run[r].log[i].fate \in SkipFates
            \/ EnrichmentFailed(run[r].log[i].outcomes))
         => run[r].log[i].fate # "saved"

\* C14 amended: an error of the duplicate lookup, of the validation or of the
\* save is caught and that article is not saved by the call; an error inside
\* an enrichment step is caught by the step, which hands back its fallback,
\* and the article goes on to be saved with it; in both cases the later
\* articles of the capped batch are processed and the call returns normally.
C14_ErrorNeverAbortsBatch ==
  \A r \in Runs :
    /\ BatchNeverAborted(run[r])
    /\ \A i \in DOMAIN run[r].log :
         LET e == run[r].log[i]
         IN /\ e.fate \in SkipFates =>
                 \A a \in articles :
                   a.url = e.url =>
                     \E k \in DOMAIN run[r].log :
                       k # i /\ run[r].log[k].url = e.url
                             /\ run[r].log[k].fate = "saved"
            /\ e.fate = "saved" =>
                 \E a \in articles :
                   /\ a.url = e.url /\ a.outcomes = e.outcomes
                   /\ FallbackHeld(a.outcomes, a.sentiment, a.entities,
                                   a.keywords, a.readability)

\* the lookup of the first article failed, the second was saved with the
\* fallback of a failed enrichment step, the third failed validation, and the
\* call returned
C14_Witness ==
  LET rec == run["cron"]
  IN /\ rec.pc = "idle" /\ rec.cycles = 1
     /\ Len(rec.log) >= 3
     /\ rec.log[1].fate = "lookup_failed"
     /\ rec.log[2].fate = "saved"
     /\ rec.log[2].outcomes["sentiment"] = "transport_error"
     /\ rec.log[3].fate = "invalid"

\* the adapters before the current one have been invoked, and once the
\* adapters are done all three have been, the batch being what they returned
AdaptersAllInvoked(rec) ==
  /\ rec.pc \in {"invoke", "adapter"} =>
       /\ {AdapterOrder[i] : i \in 1..(rec.adapter - 1)} \subseteq rec.invoked
       /\ Len(rec.returned) = rec.adapter - 1
  /\ (rec.pc \in ProcessingPcs \/ (rec.pc = "idle" /\ rec.cycles >= 1)) =>
       /\ rec.invoked = {"rss", "newsapi", "guardian"}
       /\ Len(rec.returned) = 3
       /\ rec.all = rec.returned[1] \o rec.returned[2] \o rec.returned[3]
  /\ \A i \in DOMAIN rec.returned :
       AdapterOrder[i] \in rec.failedAdapters => rec.returned[i] = <<>>

\* C15: whatever fails (upstream fetches, storage operations, enrichment
\* calls) scrapeAll does not raise and terminates; every adapter is invoked
\* whether or not an earlier one failed, and what the adapters returned is
\* the batch that processAndSaveArticles handles.
C15_NoFatalOutcome ==
  /\ [](\A r \in Runs : BatchNeverAborted(run[r]) /\ AdaptersAllInvoked(run[r]))
  /\ <>(run["cron"].pc = "idle" /\ run["cron"].cycles = 1)

\* the RSS adapter threw, the Guardian adapter was still invoked and its
\* article was saved, and scrapeAll returned
C15_Witness ==
  LET rec == run["cron"]
  IN /\ rec.pc = "idle" /\ rec.cycles = 1
     /\ "rss" \in rec.failedAdapters
     /\ rec.invoked = {"rss", "newsapi", "guardian"}
     /\ rec.returned[3] # <<>>
     /\ \E a \in articles : a.source = "guardian"

\* C16: the stored errorCount of the RSS source equals the number of failed
\* handlings in a row since its last success; after a success errorCount is
\* 0, no error message is recorded and lastFetched and lastSuccessful carry
\* the time of that handling; after a failure errorCount was incremented and
\* an error message is recorded.
C16_ErrorCountAndMessage ==
  /\ rssSource.errorCount = rssSource.streak
  /\ rssSource.latest = "failed" => rssSource.lastError # ""
  /\ rssSource.latest = "ok" =>
       /\ rssSource.errorCount = 0
       /\ rssSource.lastFetched > 0
       /\ rssSource.lastFetched = rssSource.lastSuccessful
       /\ rssSource.lastError = ""
  /\ rssSource.lastError # "" => rssSource.latest = "failed"

\* the position handled by the call lies within the first 10 entries of its
\* input, and so does every article the call has handled so far
WithinPrefix(rec) ==
  /\ rec.pc \in ProcessingPcs =>
       rec.pos >= 1 /\ rec.pos <= 10 /\ rec.pos <= Len(rec.all)
  /\ Len(rec.log) <= 10
  /\ \A i \in DOMAIN rec.log :
       /\ rec.log[i].pos <= 10
       /\ rec.log[i].url = rec.all[rec.log[i].pos].url

\* an enrichment call or a save made by a step of the call is made for an
\* entry among the first 10 of the input, and a saved document is that entry
EnrichOrSaveInPrefix(r) ==
  (run[r].pc \in EnrichmentPcs \cup {"save"} /\ run'[r] # run[r]) =>
     /\ run[r].pos <= 10
     /\ \A a \in articles' \ articles :
          a.url = run[r].all[run[r].pos].url

\* C17: a call of processAndSaveArticles enriches and saves at most 10
\* articles, all of them among the first 10 entries of its input in order;
\* no enrichment call and no save is made for an entry past that prefix.
C17_AtMostTenFromPrefix ==
  /\ [](\A r \in Runs : WithinPrefix(run[r]))
  /\ [][\A r \in Runs : EnrichOrSaveInPrefix(r)]_vars

\* the adapters returned more than 10 articles, the call saved 10 of them
\* and returned with the rest untouched
C17_Witness ==
  LET rec == run["cron"]
  IN /\ rec.pc = "idle" /\ rec.cycles = 1
     /\ Len(rec.all) > 10
     /\ Len(rec.log) = 10
     /\ \A i \in 1..10 : rec.log[i].fate = "saved"
     /\ Cardinality(articles) = 10

\* the adapters whose API key is not configured: the key is missing, or for
\* the Guardian it is the placeholder of the sample configuration
Unconfigured ==
  {a \in {"newsapi", "guardian"} : env.keys[a] = ""}
    \cup {a \in {"guardian"} : env.keys[a] = "your_guardian_api_key_here"}

\* an adapter without a configured key, once invoked, has issued no HTTP
\* request and taken no rate-limit slot, did not throw, and returned an empty
\* sequence; the adapters after it are invoked all the same
SoftSkipped(rec) ==
  \A i \in DOMAIN AdapterOrder :
    (AdapterOrder[i] \in Unconfigured /\ AdapterOrder[i] \in rec.invoked) =>
      /\ rec.http[AdapterOrder[i]] = 0
      /\ rec.slots[AdapterOrder[i]] = 0
      /\ AdapterOrder[i] \notin rec.failedAdapters
      /\ ~rec.raised /\ rec.pc # "raised"
      /\ Len(rec.returned) >= i /\ rec.returned[i] = <<>>
      /\ (rec.pc \in ProcessingPcs \/ (rec.pc = "idle" /\ rec.cycles >= 1)) =>
            \A j \in DOMAIN AdapterOrder : AdapterOrder[j] \in rec.invoked

\* C19: an adapter whose API key is not configured (NewsAPI: key missing;
\* Guardian: key missing or the placeholder) returns an empty sequence without
\* any HTTP request and without a rate-limit slot, raises nothing, and the
\* cycle goes on with the other adapters.
C19_MissingKeySoftSkip == \A r \in Runs : SoftSkipped(run[r])

\* the NewsAPI key is missing and the Guardian key is the placeholder: both
\* adapters were skipped without a request while the RSS article was saved
C19_Witness ==
  LET rec == run["cron"]
  IN /\ env.keys["newsapi"] = "" /\ env.keys["guardian"] = GuardianPlaceholder
     /\ feeds["newsapi"] # <<>> /\ feeds["guardian"] # <<>>
     /\ rec.pc = "idle" /\ rec.cycles = 1
     /\ rec.invoked = {"rss", "newsapi", "guardian"}
     /\ rec.http["newsapi"] = 0 /\ rec.http["guardian"] = 0
     /\ \E a \in articles : a.source = "rss"

\* the urls the upstream sources serve on every cycle: the entries of the
\* feeds and the article links of the listing pages
ServedUrls ==
  UNION {{feeds[a][i].url : i \in DOMAIN feeds[a]} : a \in Adapters}
    \cup (IF web.pc = "off" THEN {}
          ELSE UNION {{WebUrl(s, i) : i \in DOMAIN ArticleLinks(web, s)} :
                        s \in DOMAIN NEWS_SOURCES})

\* C18: when the sources keep serving the same articles on every cycle and
\* nothing fails, every served article is persisted after finitely many
\* cycles, on the RSS / NewsAPI / Guardian path and on the web-scraping path
\* alike.
C18_EventuallyPersisted ==
  <>(\A u \in ServedUrls : \E a \in articles : a.url = u)

\* C20: in the HTML-page adapter two consecutive page fetches within one
\* source, the fetch of the listing page and the fetches of the article pages
\* alike, are separated by a sleep of at least 1000 ms, and the last fetch of
\* a source and the first fetch of the next source by a longer one.
C20_DelayBetweenFetches ==
  web.pc # "off" =>
    /\ web.gap.kind = "within" => web.gap.ms >= 1000
    /\ web.gap.kind = "between" => web.gap.ms > 1000

\* the enrichment fields of a stored Article all hold a value of their type
Populated(a) ==
  /\ a.sentiment.score.t = "number"
  /\ a.sentiment.confidence.t = "number"
  /\ a.sentiment.label \in {"positive", "negative", "neutral"}
  /\ a.keywords >= 0
  /\ \A c \in {"person", "organization", "location", "technology", "other"} :
       a.entities[c] >= 0
  /\ a.readability >= 0

\* C21: every Article in the store, whichever ingestion path wrote it
\* (processAndSaveArticles, POST /api/web-scraper with any options), has its
\* sentiment, keywords, entities and readability populated, with the fallback
\* values where the enrichment failed.
C21_NoPartialArticle ==
  \A a \in articles :
    /\ Populated(a)
    /\ FallbackHeld(a.outcomes, a.sentiment, a.entities, a.keywords, a.readability)

\* processAndSaveArticles stored an Article with the fallback of a failed
\* sentiment call, and POST /api/web-scraper with saveToDB went through
\* Article.create for another article, which the model refused
C21_Witness ==
  /\ \E a \in articles : a.outcomes["sentiment"] = "transport_error"
  /\ run["manual"].pc = "idle" /\ run["manual"].cycles = 2
  /\ web.saveToDB /\ web.analyzeSentiment
  /\ \E i \in DOMAIN run["manual"].log :
       /\ run["manual"].log[i].fate = "invalid"
       /\ run["manual"].log[i].outcomes["sentiment"] = "json"
       /\ run["manual"].log[i].outcomes["readability"] = "none"

(***************************************************************************)
(* Properties of the scheduler                                             *)
(***************************************************************************)
\* C22: once the daily analytics job has fired and completed, an Analytics
\* snapshot exists for the current bucket of a timeframe.
C22_AnalyticsJobCaches ==
  (sched.pc = "on" /\ sched.fired > 0) =>
     \E timeframe \in {"hour", "day", "week", "month"} :
       ExistingAnalytics(analytics, BucketStart(timeframe, cacheEnv.now), timeframe)

\* the tasks registered with the cron library are the three jobs, once each
ThreeTasks(s) ==
  /\ \A j \in DOMAIN s.registered : s.registered[j] = 1
  /\ Len(s.tasks) = 3

NoTasks(s) ==
  /\ \A j \in DOMAIN s.registered : s.registered[j] = 0
  /\ s.tasks = <<>>

\* a step of the scheduler that is a call of op, not a firing of a job
Called(op) == sched'.fired = sched.fired /\ sched'.last.op = op

\* what start, stop and getStatus may and may not change
SchedulerCalls ==
  /\ (Called("start") /\ sched.isSchedulerRunning) =>
        [sched' EXCEPT !.last = sched.last] = sched
  /\ (Called("stop") /\ ~sched.isSchedulerRunning) =>
        [sched' EXCEPT !.last = sched.last] = sched
  /\ Called("getStatus") =>
        /\ [sched' EXCEPT !.last = sched.last] = sched
        /\ sched'.last.outcome = (IF sched.isSchedulerRunning
                                   THEN "isRunning: true" ELSE "isRunning: false")

Qualifies(page, i) ==
  /\ Len(Elements(page, contentSelectors[i])) >= 2
  /\ TextLength(Kept(Elements(page, contentSelectors[i]))) > 100

\* the generic paragraphs longer than 20 characters, at most the first 10
GenericParagraphs(page) ==
  LET long == SelectSeq(AllParagraphs(page), LAMBDA p : p.len > 20)
  IN [i \in 1..Min(10, Len(long)) |-> long[i]]

\* C23: on a fetched page extractFullContent returns the kept text of the
\* first selector, in priority order, that matches at least two paragraphs
\* and whose kept text exceeds 100 characters; when no selector qualifies
\* it returns the generic paragraphs longer than 20 characters, at most the
\* first 10; the text of a selector that did not reach the threshold is
\* never returned
C23_FirstQualifyingSelectorOrGeneric ==
  (call.pc = "extracted" /\ call.page.fetched) =>
    LET qualifying == {i \in DOMAIN contentSelectors : Qualifies(call.page, i)}
    IN IF qualifying # {}
         THEN LET first == CHOOSE i \in qualifying :
                             \A j \in qualifying : i <= j
              IN call.returned = Kept(Elements(call.page, contentSelectors[first]))
       ELSE call.returned = GenericParagraphs(call.page)

(***************************************************************************)
(* Properties of the request of scrapeNewsAPI                              *)
(***************************************************************************)
\* the values the request carries under a name
Carried(name) ==
  {call.request.params[i].value :
     i \in {j \in DOMAIN call.request.params :
              call.request.params[j].name = name}}

\* C24: the request of scrapeNewsAPI is in exactly one of two modes: with a
\* query it goes to the everything endpoint with q, sortBy=publishedAt and
\* the date 24 h back as from, and has no country; without a query it goes
\* to top-headlines.  It never has both country and sources, and it has a
\* category only when neither query nor sources is given.
C24_RequestModes ==
  call.pc = "requested" =>
    /\ Truthy(call.query) =>
         /\ call.request.endpoint = "https://newsapi.org/v2/everything"
         /\ Carried("q") = {call.query}
         /\ Carried("sortBy") = {Str("publishedAt")}
         /\ Carried("from") = {Num((call.now - 24) \div 24)}
         /\ Carried("country") = {}
    /\ ~Truthy(call.query) =>
         /\ call.request.endpoint = "https://newsapi.org/v2/top-headlines"
         /\ Carried("q") = {} /\ Carried("sortBy") = {} /\ Carried("from") = {}
    /\ ~(Carried("country") # {} /\ Carried("sources") # {})
    /\ Carried("category") # {} =>
         ~Truthy(call.query) /\ ~Truthy(call.sources)

\* a request for given sources and a category, without a query
C24_Witness ==
  /\ call.pc = "requested"
  /\ ~Truthy(call.query) /\ Truthy(call.sources) /\ Truthy(call.category)
  /\ Carried("sources") = {call.sources}
  /\ Carried("country") = {} /\ Carried("category") = {}

(***************************************************************************)
(* Properties of scrapeRSSFeeds over several sources                       *)
(***************************************************************************)
\* C25: a failure for one active source, a failure of the save that records
\* the error of the source included, does not stop the loop: the call ends
\* by returning, every source has been fetched and the articles collected
\* from the sources are returned
C25_SourceFailureDoesNotStopLoop ==
  call.pc \in {"rss returned", "rss threw"} =>
    /\ call.pc = "rss returned"
    /\ call.fetched = {SourceNames[i] : i \in 1..NSources}
    /\ call.returned = call.articles

(***************************************************************************)
(* Properties of the trend series of the dashboard metrics                 *)
(***************************************************************************)
\* C26: for the timeframes hour, day, week and month the sentiment and the
\* volume trend of generateDashboardMetrics cover the whole window, from
\* its start to now, with one point per day, and the counts of the volume
\* trend add up to the number of stored articles published in the window
C26_TrendsCoverWindow ==
  (dash.pc = "returned" /\ dash.timeframe \in {"hour", "day", "week", "month"}) =>
    LET volumeTrend == dash.result.volumeTrend
        sentimentTrend == dash.result.sentimentTrend
        inWindow == {a \in dash.docs :
                       a.age >= 0 /\ a.age <= WindowHours(dash.timeframe)}
    IN /\ 24 * Len(volumeTrend) >= WindowHours(dash.timeframe)
       /\ Len(sentimentTrend) = Len(volumeTrend)
       /\ SumOver([i \in DOMAIN volumeTrend |-> volumeTrend[i].count],
                  DOMAIN volumeTrend) = Cardinality(inWindow)
       /\ SumOver([i \in DOMAIN sentimentTrend |-> sentimentTrend[i].count],
                  DOMAIN sentimentTrend) = Cardinality(inWindow)

(***************************************************************************)
(* Properties of the dates of the adapters                                 *)
(***************************************************************************)
\* the date string the adapter reads from the item
UpstreamDate ==
  IF call.adapter \in {"rss", "web"} THEN JsOr(call.first, call.second)
  ELSE call.first

\* C27: in every adapter, when the upstream date string cannot be parsed the
\* article carries the current time as publishedAt, and no article carries
\* an invalid publishedAt
C27_UnparseableDateBecomesNow ==
  call.pc = "dated" =>
    /\ call.publishedAt.valid
    /\ (UpstreamDate.t = "string" /\ ~DateParse(UpstreamDate.s).valid) =>
         call.publishedAt = DateAt(call.now)

(***************************************************************************)
(* Properties of the system log                                            *)
(***************************************************************************)
\* the buffer holds at most MAX_LOGS entries, the most recently appended
\* ones, newest first
BufferIsRecent ==
  /\ Len(systemLogs.logs) <= MAX_LOGS
  /\ Len(systemLogs.logs) = Min(systemLogs.appended, MAX_LOGS)
  /\ \A i \in DOMAIN systemLogs.logs :
       systemLogs.logs[i].n = systemLogs.appended + 1 - i

\* the returned entries are entries of the buffer, in its order
ReturnedInOrder ==
  /\ \A i \in DOMAIN systemLogs.returned :
       \E j \in DOMAIN systemLogs.logs :
         systemLogs.logs[j] = systemLogs.returned[i]
  /\ \A i \in DOMAIN systemLogs.returned : \A j \in DOMAIN systemLogs.returned :
       i < j => systemLogs.returned[i].n > systemLogs.returned[j].n

\* C28: the system log holds at most 1000 entries, the most recently
\* appended ones, newest first; getSystemLogs(limit, level) returns at most
\* limit entries, in that order, all of the requested level when the level
\* is one of info, warning, error, success, and leaves the buffer as it is
C28_BoundedLogAndLimitedRead ==
  systemLogs.pc = "on" =>
    /\ BufferIsRecent
    /\ systemLogs.last = "getSystemLogs" =>
         /\ ReturnedInOrder
         /\ (systemLogs.limit.t = "number" /\ systemLogs.limit.n >= 0) =>
              Len(systemLogs.returned) <= systemLogs.limit.n
         /\ (systemLogs.level.t = "string"
               /\ systemLogs.level.s \in {"info", "warning", "error", "success"}) =>
              \A i \in DOMAIN systemLogs.returned :
                systemLogs.returned[i].level = systemLogs.level.s

(***************************************************************************)
(* Properties of connectDB                                                 *)
(***************************************************************************)
\* C30: at most one connection attempt is in flight; every call that
\* returned got the one established connection, the callers that waited on
\* an attempt the connection of that attempt; once a connection is
\* established no later attempt is made; after a failed attempt the cached
\* promise is cleared, every call that awaited it raises, and a later call
\* starts a fresh attempt instead of awaiting the failed one
C30_SingleAttemptSharedConnection ==
  cached.pc = "on" =>
    /\ Cardinality({id \in DOMAIN cached.attempts :
                      cached.attempts[id] = "pending"}) <= 1
    /\ \A c \in DOMAIN cached.callers :
         cached.callers[c].pc = "returned" =>
           /\ cached.callers[c].got = cached.conn
           /\ cached.callers[c].got = cached.callers[c].attempt
                \/ cached.callers[c].attempt = 0
                \/ cached.attempts[cached.callers[c].attempt] = "rejected"
    /\ cached.conn # 0 =>
         /\ cached.conn = Len(cached.attempts)
         /\ cached.attempts[cached.conn] = "resolved"
    /\ cached.queue = <<>> =>
         /\ cached.promise # 0 => cached.attempts[cached.promise] # "rejected"
         /\ \A c \in DOMAIN cached.callers :
              (cached.callers[c].pc = "awaiting") =>
                 cached.attempts[cached.callers[c].attempt] = "pending"
    /\ \A c \in DOMAIN cached.callers : \A id \in cached.callers[c].raised :
         cached.attempts[id] = "rejected"

\* the first attempt failed and raised to both callers, the second one gave
\* both of them its connection
C30_Witness ==
  /\ cached.pc = "on"
  /\ cached.attempts = <<"rejected", "resolved">>
  /\ cached.conn = 2
  /\ \A c \in DOMAIN cached.callers :
       /\ cached.callers[c].raised = {1}
       /\ cached.callers[c].pc = "returned"
       /\ cached.callers[c].got = 2

====
